---- MODULE Spec2Model ----
(***************************************************************************)
(* Model of henno/api-validator.                                           *)
(*                                                                         *)
(*  - the queued-test execution engine of test_helpers.ts (t,              *)
(*    runQueuedTests, req), specification Spec;                            *)
(*  - the route planner / emitter of testfile_generator.ts                 *)
(*    (generateTestFile, sortStatusCodes), specification SpecGen.          *)
(*                                                                         *)
(* JavaScript strings are sequences of one-character strings, so that      *)
(* String.prototype.replace, split and parseInt are computed rather than   *)
(* assumed.  The runtime is Bun (README), so process.exit exists and the   *)
(* statements after a taken process.exit?.() are never reached.            *)
(***************************************************************************)
EXTENDS Integers, Sequences, FiniteSets, TLC

VARIABLES
    queuedTests,   \* const queuedTests: QueuedTest[]
    ctx,           \* export const ctx: Record<string, any>
    BASE_URL,      \* globalThis.BASE_URL (Undefined when never assigned)
    pc,            \* position of runQueuedTests
    idx,           \* 1-based position of the for..of iterator over queuedTests
    res,           \* the ReqResponse the loop body holds
    inflight,      \* cases whose fetch() has been issued and has not settled
    running,       \* cases whose save callback has been entered and not left
    prepared,      \* history: the calls of req() made by the loop, in order
    wire,          \* history: the HTTP requests handed to fetch(), in order
    calls,         \* history: the save callbacks entered, in order
    log,           \* history: what the run did, in order
    plan           \* state of generateTestFile (see the generator part)

vars == <<queuedTests, ctx, BASE_URL, pc, idx, res, inflight, running, prepared, wire, calls, log, plan>>

engineVars == <<queuedTests, ctx, BASE_URL, pc, idx, res, inflight, running, prepared, wire, calls, log>>

-----------------------------------------------------------------------------
(* Bounds                                                                  *)

MaxQueue == 3

MaxRoutes == 2

-----------------------------------------------------------------------------
(* JavaScript strings                                                      *)

\* the value undefined: no string of characters equals it
Undefined == <<"undefined">>

\* String(undefined), what replace() inserts when its callback returns undefined
UndefinedText == <<"u", "n", "d", "e", "f", "i", "n", "e", "d">>

\* [a-z] under the i flag
Letter == {"a", "b", "c", "d", "e", "f", "g", "h", "i", "j", "k", "l", "m",
           "n", "o", "p", "q", "r", "s", "t", "u", "v", "w", "x", "y", "z",
           "A", "B", "C", "D", "E", "F", "G", "H", "I", "J", "K", "L", "M",
           "N", "O", "P", "Q", "R", "S", "T", "U", "V", "W", "X", "Y", "Z"}

Digit == {"0", "1", "2", "3", "4", "5", "6", "7", "8", "9"}

\* \w
WordChar == Letter \cup Digit \cup {"_"}

\* ctx[k]: a property read of a plain object
Lookup(c, k) == IF k \in DOMAIN c THEN c[k] ELSE Undefined

\* ctx[k] = v
Store(c, k, v) == [x \in (DOMAIN c) \cup {k} |-> IF x = k THEN v ELSE c[x]]

\* the conversion replace() applies to the value its callback returns
ToText(v) == IF v = Undefined THEN UndefinedText ELSE v

\* truthiness of a string or undefined
Truthy(v) == v # Undefined /\ v # <<>>

\* end of the longest run of \w starting at position i (i - 1 when there is none)
RECURSIVE WordEnd(_, _)
WordEnd(s, i) ==
    IF i <= Len(s) /\ s[i] \in WordChar THEN WordEnd(s, i + 1) ELSE i - 1

\* does /\$([a-z]\w*)/i match at position i
TokenAt(s, i) == s[i] = "$" /\ i + 1 <= Len(s) /\ s[i + 1] \in Letter

\* url.replace(/\$([a-z]\w*)/gi, (_, k) => ctx[k]) from position i on
RECURSIVE ReplaceFrom(_, _, _)
ReplaceFrom(s, i, c) ==
    IF i > Len(s) THEN <<>>
    ELSE IF TokenAt(s, i)
         THEN LET e == WordEnd(s, i + 1)
                  k == SubSeq(s, i + 1, e)
              IN  ToText(Lookup(c, k)) \o ReplaceFrom(s, e + 1, c)
         ELSE <<s[i]>> \o ReplaceFrom(s, i + 1, c)

\* the same replace() without the g flag: only the first match is replaced
RECURSIVE ReplaceFirstFrom(_, _, _)
ReplaceFirstFrom(s, i, c) ==
    IF i > Len(s) THEN <<>>
    ELSE IF TokenAt(s, i)
         THEN LET e == WordEnd(s, i + 1)
                  k == SubSeq(s, i + 1, e)
              IN  ToText(Lookup(c, k)) \o SubSeq(s, e + 1, Len(s))
         ELSE <<s[i]>> \o ReplaceFirstFrom(s, i + 1, c)

InterpolateFirstOnly(url, c) == ReplaceFirstFrom(url, 1, c)

Interpolate(url, c) == ReplaceFrom(url, 1, c)

\* s.split(" "): the pieces between the spaces
RECURSIVE SplitFrom(_, _, _)
SplitFrom(s, i, cur) ==
    IF i > Len(s) THEN <<cur>>
    ELSE IF s[i] = " " THEN <<cur>> \o SplitFrom(s, i + 1, <<>>)
         ELSE SplitFrom(s, i + 1, Append(cur, s[i]))

\* const [method = "", path = ""] = methodPath.split(" ", 2)
SplitMethodPath(s) ==
    LET parts == SplitFrom(s, 1, <<>>)
    IN  [method |-> parts[1],
         path   |-> IF Len(parts) >= 2 THEN parts[2] ELSE <<>>]

-----------------------------------------------------------------------------
(* The queue: t(url, auth, expStatus, body, save)                          *)

TokenKey == <<"t", "o", "k", "e", "n">>
IdKey == <<"i", "d">>

\* the save callbacks a test file passes to t(): none, two that store the
\* response body in the shared context, and one whose expect() throws
SaveKinds == {"none", "saveToken", "saveId", "throws"}

\* the descriptors a test file registers
UrlLogin == <<"P", " ", "/", "s">>
UrlCreate == <<"P", " ", "/", "u">>
UrlRead == <<"G", " ", "/", "u", "/", "$", "i", "d">>
UrlTwice == <<"G", " ", "/", "$", "i", "d", "/", "$", "i", "d", "/", "$", "4">>
UrlMixed == <<"G", " ", "/", "$", "i", "d", "x", "/", "$", "i", "d">>
UrlNoPath == <<"G">>
UrlPlain == <<"G", " ", "/", "p">>

\* the cases a test file registers
Cases ==
    { [url |-> UrlLogin, auth |-> FALSE, expStatus |-> 200, save |-> "saveToken"],
      [url |-> UrlCreate, auth |-> TRUE, expStatus |-> 200, save |-> "saveId"],
      [url |-> UrlRead, auth |-> TRUE, expStatus |-> 200, save |-> "none"],
      [url |-> UrlTwice, auth |-> FALSE, expStatus |-> 401, save |-> "throws"],
      [url |-> UrlMixed, auth |-> TRUE, expStatus |-> 401, save |-> "none"],
      [url |-> UrlNoPath, auth |-> FALSE, expStatus |-> 0, save |-> "none"],
      [url |-> UrlPlain, auth |-> TRUE, expStatus |-> 0, save |-> "saveToken"] }

\* what fetch() can resolve with
HttpStatuses == {200, 401}
Bodies == {<<"4", "2">>, <<>>}

\* e.message of a failed fetch()
FetchError == <<"E">>

\* `Invalid methodPath: ${methodPath}`
InvalidBody(methodPath) == <<"I", ":">> \o methodPath

BaseUrls == {Undefined, <<"h">>}

\* `Bearer ${ctx.token}`
Bearer(token) == <<"B", "e", "a", "r", "e", "r", " ">> \o token

\* the header decision without the auth flag
AuthHeadersIgnoringAuth(auth, c) ==
    IF Truthy(Lookup(c, TokenKey))
    THEN {<<"Authorization", Bearer(Lookup(c, TokenKey))>>}
    ELSE {}

\* const headers = auth && ctx.token ? { Authorization: ... } : {}
AuthHeaders(auth, c) ==
    IF auth /\ Truthy(Lookup(c, TokenKey))
    THEN {<<"Authorization", Bearer(Lookup(c, TokenKey))>>}
    ELSE {}

\* req() without the check of the base URL
ReqOutcomeNoBaseCheck(methodPath, baseUrl) ==
    LET mp == SplitMethodPath(methodPath)
    IN  IF mp.method = <<>> \/ mp.path = <<>> THEN "invalid" ELSE "fetch"

\* req() up to its first suspension: an early return, a throw, or fetch()
ReqOutcome(methodPath, baseUrl) ==
    LET mp == SplitMethodPath(methodPath)
    IN  IF mp.method = <<>> \/ mp.path = <<>> THEN "invalid"
        ELSE IF baseUrl = Undefined THEN "throw"
        ELSE "fetch"

\* a comparison that lets the transport sentinel through
StatusMatchesOrZero(r, expStatus) == r.status = expStatus \/ r.status = 0

\* res.status === expStatus
StatusMatches(r, expStatus) == r.status = expStatus

\* a loop that does not await req()
AtLoopHeadNoAwait == pc \in {"loop", "fetch"}

\* the loop body is entered only when the previous iteration's awaits are over
AtLoopHead == pc = "loop"

NoRes == [status |-> -1, body |-> <<>>]

Event(ev, i, r) == [ev |-> ev, case |-> i, res |-> r]

\* an iterator that steps over an element
NextIndexSkips(i) == i + 2

\* for (const ... of queuedTests): the iterator's step
NextIndex(i) == i + 1

EngineInit ==
    /\ queuedTests = <<>>
    /\ ctx = [k \in {} |-> <<>>]
    /\ BASE_URL \in BaseUrls
    /\ pc = "load"
    /\ idx = 0
    /\ res = NoRes
    /\ inflight = {}
    /\ running = {}
    /\ prepared = <<>>
    /\ wire = <<>>
    /\ calls = <<>>
    /\ log = <<>>

\* t(): queuedTests.push([url, auth, expStatus, body, save])
t(c) ==
    /\ pc = "load"
    /\ Len(queuedTests) < MaxQueue
    /\ queuedTests' = Append(queuedTests, c)
    /\ UNCHANGED <<ctx, BASE_URL, pc, idx, res, inflight, running, prepared, wire, calls, log, plan>>

\* runQueuedTests() is called: the for..of iterator is created
runQueuedTests ==
    /\ pc = "load"
    /\ pc' = "loop"
    /\ idx' = 1
    /\ UNCHANGED <<queuedTests, ctx, BASE_URL, res, inflight, running, prepared, wire, calls, log, plan>>

\* the iterator is exhausted: process.exit?.(0)
ExitZero ==
    /\ AtLoopHead
    /\ idx > Len(queuedTests)
    /\ pc' = "exit0"
    /\ UNCHANGED <<queuedTests, ctx, BASE_URL, idx, res, inflight, running, prepared, wire, calls, log, plan>>

\* one iteration, from the destructuring to the suspension in `await req(...)`
Iterate ==
    /\ AtLoopHead
    /\ idx <= Len(queuedTests)
    /\ LET c       == queuedTests[idx]
           path    == Interpolate(c.url, ctx)
           headers == AuthHeaders(c.auth, ctx)
           mp      == SplitMethodPath(path)
           outcome == ReqOutcome(path, BASE_URL)
       IN  /\ prepared' = Append(prepared, [case |-> idx, ctx |-> ctx, descriptor |-> path,
                                            headers |-> headers, outcome |-> outcome])
           /\ \/ /\ outcome = "invalid"
                 /\ res' = [status |-> 0, body |-> InvalidBody(path)]
                 /\ pc' = "settled"
                 /\ log' = Append(log, Event("invalid", idx, res'))
                 /\ UNCHANGED <<wire, inflight>>
              \/ /\ outcome = "throw"
                 /\ pc' = "rejected"
                 /\ log' = Append(log, Event("throw", idx, NoRes))
                 /\ UNCHANGED <<res, wire, inflight>>
              \/ /\ outcome = "fetch"
                 /\ wire' = Append(wire, [case |-> idx, method |-> mp.method,
                                          path |-> mp.path, headers |-> headers])
                 /\ inflight' = inflight \cup {Len(wire) + 1}
                 /\ pc' = "fetch"
                 /\ log' = Append(log, Event("dispatch", idx, NoRes))
                 /\ UNCHANGED res
    /\ UNCHANGED <<queuedTests, ctx, BASE_URL, idx, running, calls, plan>>

\* fetch() resolves: return { status: res.status, body: resBody }
FetchReturns ==
    /\ pc = "fetch"
    /\ \E s \in HttpStatuses, b \in Bodies : res' = [status |-> s, body |-> b]
    /\ inflight' = {}
    /\ pc' = "settled"
    /\ log' = Append(log, Event("response", idx, res'))
    /\ UNCHANGED <<queuedTests, ctx, BASE_URL, idx, running, prepared, wire, calls, plan>>

\* fetch() rejects and nothing catches it
FetchFailsUncaught ==
    /\ pc = "fetch"
    /\ inflight' = {}
    /\ pc' = "rejected"
    /\ log' = Append(log, Event("transport", idx, NoRes))
    /\ UNCHANGED <<queuedTests, ctx, BASE_URL, idx, res, running, prepared, wire, calls, plan>>

\* fetch() rejects: catch (e) { return { status: 0, body: e.message } }
FetchFails ==
    /\ pc = "fetch"
    /\ res' = [status |-> 0, body |-> FetchError]
    /\ inflight' = {}
    /\ pc' = "settled"
    /\ log' = Append(log, Event("transport", idx, res'))
    /\ UNCHANGED <<queuedTests, ctx, BASE_URL, idx, running, prepared, wire, calls, plan>>

\* if (res.status === expStatus) { ...; if (save) await save(res, ctx) }
\* else { ...; process.exit?.(1) }
Compare ==
    /\ pc = "settled"
    /\ LET c == queuedTests[idx]
       IN  IF StatusMatches(res, c.expStatus)
           THEN IF c.save # "none"
                THEN /\ pc' = "save"
                     /\ running' = running \cup {idx}
                     /\ calls' = Append(calls, [case |-> idx, res |-> res, ctx |-> ctx])
                     /\ log' = log \o <<Event("pass", idx, res), Event("enter", idx, res)>>
                     /\ UNCHANGED idx
                ELSE /\ pc' = "loop"
                     /\ idx' = NextIndex(idx)
                     /\ log' = Append(log, Event("pass", idx, res))
                     /\ UNCHANGED <<running, calls>>
           ELSE /\ pc' = "exit1"
                /\ log' = Append(log, Event("fail", idx, res))
                /\ UNCHANGED <<idx, running, calls>>
    /\ UNCHANGED <<queuedTests, ctx, BASE_URL, res, inflight, prepared, wire, plan>>

\* a callback that was handed a copy of the context
SaveEffectOnCopy(kind, r, c) == c

\* what a callback that returns has written to the shared context
SaveEffect(kind, r, c) ==
    CASE kind = "saveToken" -> Store(c, TokenKey, r.body)
      [] kind = "saveId"    -> Store(c, IdKey, r.body)
      [] OTHER              -> c

\* the awaited save(res, ctx) returns
SaveReturns ==
    /\ pc = "save"
    /\ queuedTests[idx].save \in {"saveToken", "saveId"}
    /\ ctx' = SaveEffect(queuedTests[idx].save, res, ctx)
    /\ running' = {}
    /\ idx' = NextIndex(idx)
    /\ pc' = "loop"
    /\ log' = Append(log, Event("leave", idx, NoRes))
    /\ UNCHANGED <<queuedTests, BASE_URL, res, inflight, prepared, wire, calls, plan>>

\* a throw of the callback that is caught, the loop going on
SaveThrowsCaught ==
    /\ pc = "save"
    /\ queuedTests[idx].save = "throws"
    /\ running' = {}
    /\ idx' = NextIndex(idx)
    /\ pc' = "loop"
    /\ log' = Append(log, Event("threw", idx, NoRes))
    /\ UNCHANGED <<queuedTests, ctx, BASE_URL, res, inflight, prepared, wire, calls, plan>>

\* the awaited save(res, ctx) throws: runQueuedTests rejects
SaveThrows ==
    /\ pc = "save"
    /\ queuedTests[idx].save = "throws"
    /\ running' = {}
    /\ pc' = "rejected"
    /\ log' = Append(log, Event("threw", idx, NoRes))
    /\ UNCHANGED <<queuedTests, ctx, BASE_URL, idx, res, inflight, prepared, wire, calls, plan>>

PlanIdle == <<>>

Init ==
    /\ EngineInit
    /\ plan = PlanIdle

Next ==
    \/ \E c \in Cases : t(c)
    \/ runQueuedTests
    \/ ExitZero
    \/ Iterate
    \/ FetchReturns
    \/ FetchFails
    \/ Compare
    \/ SaveReturns
    \/ SaveThrows

Spec == Init /\ [][Next]_vars

\* a scheduling that may leave the request of a case pending for ever
FairnessButRequests ==
    /\ []<>(~(AtLoopHead /\ idx <= Len(queuedTests)))
    /\ WF_vars(ExitZero)
    /\ WF_vars(Compare)
    /\ WF_vars(SaveReturns \/ SaveThrows)

\* the event loop resumes runQueuedTests whenever the promise it awaits is
\* settled; that every request returns and every callback completes is
\* the hypothesis under which termination is claimed.  A step of Iterate
\* is possible exactly at the loop head with a case left and always leaves
\* the loop head, so weak fairness of Iterate is that the run is not at
\* the loop head with a case left for ever.
Fairness ==
    /\ []<>(~(AtLoopHead /\ idx <= Len(queuedTests)))
    /\ WF_vars(ExitZero)
    /\ WF_vars(FetchReturns \/ FetchFails)
    /\ WF_vars(Compare)
    /\ WF_vars(SaveReturns \/ SaveThrows)

SpecFair == Spec /\ Fairness

-----------------------------------------------------------------------------
(* generateTestFile: the route plan and the emitted registrations          *)

\* the documents: paths as Object.entries() lists them, each operation with
\* the keys of its responses in the order the document declares them
Routes == {"/users", "/trainees", "/sessions", "/items"}

MethodLists == {<<"post">>, <<"get", "post">>}

ResponseLists ==
    { <<<<"2", "0", "1">>, <<"4", "0", "9">>, <<"5", "0", "0">>>>,
      <<<<"6", "0", "0">>, <<"5", "9", "9">>, <<"4", "0", "0">>, <<"3", "9", "9">>>>,
      <<<<"5", "0", "0">>>> }

Code500 == <<"5", "0", "0">>
Code409 == <<"4", "0", "9">>
Code400 == <<"4", "0", "0">>

\* the operations of a route whose method keys are ms, in that order
Operations(ms) ==
    { [k \in DOMAIN ms |-> [method |-> ms[k], responses |-> f[k]]] :
        f \in [DOMAIN ms -> ResponseLists] }

RouteItems ==
    UNION { {[route |-> r, methods |-> ops] : ops \in Operations(ms)} :
            r \in Routes, ms \in MethodLists }

\* the paths of a document: at most MaxRoutes routes, no route twice
Docs ==
    UNION { { d \in [1..n -> RouteItems] :
                \A i, j \in 1..n : i # j => d[i].route # d[j].route } :
            n \in 0..MaxRoutes }

DigitValue(ch) ==
    CASE ch = "0" -> 0 [] ch = "1" -> 1 [] ch = "2" -> 2 [] ch = "3" -> 3
      [] ch = "4" -> 4 [] ch = "5" -> 5 [] ch = "6" -> 6 [] ch = "7" -> 7
      [] ch = "8" -> 8 [] ch = "9" -> 9

\* parseInt(a, 10) of a string of digits
RECURSIVE ParseInt(_)
ParseInt(a) ==
    IF a = <<>> THEN 0
    ELSE 10 * ParseInt(SubSeq(a, 1, Len(a) - 1)) + DigitValue(a[Len(a)])

\* method.toLowerCase(), method.toUpperCase()
ToLowerCase(m) ==
    CASE m \in {"post", "POST"} -> "post"
      [] m \in {"get", "GET"} -> "get"
      [] OTHER -> m

ToUpperCase(m) ==
    CASE m \in {"post", "POST"} -> "POST"
      [] m \in {"get", "GET"} -> "GET"
      [] OTHER -> m

\* the integer keys of an object are kept in ascending numeric order
RECURSIVE InsertKey(_, _)
InsertKey(x, q) ==
    IF q = <<>> THEN <<x>>
    ELSE IF ParseInt(x) < ParseInt(q[1]) THEN <<x>> \o q
         ELSE <<q[1]>> \o InsertKey(x, Tail(q))

\* Object.keys(detail.responses || {}): the keys that are integers come
\* first, in ascending numeric order, whatever the order of declaration
RECURSIVE ObjectKeys(_)
ObjectKeys(declared) ==
    IF declared = <<>> THEN <<>>
    ELSE InsertKey(declared[Len(declared)],
                   ObjectKeys(SubSeq(declared, 1, Len(declared) - 1)))

\* a comparator that only compares the numbers
compareNumbersOnly(a, b) == ParseInt(a) - ParseInt(b)

\* the comparator of sortStatusCodes
compareStatusCodes(a, b) ==
    LET aNum   == ParseInt(a)
        bNum   == ParseInt(b)
        aIsNeg == aNum >= 400 /\ aNum < 600
        bIsNeg == bNum >= 400 /\ bNum < 600
    IN  IF aIsNeg /\ ~bIsNeg THEN -1
        ELSE IF ~aIsNeg /\ bIsNeg THEN 1
        ELSE aNum - bNum

\* Array.prototype.sort is stable: an element goes before the first element
\* the comparator puts it before, and after its equals
RECURSIVE InsertStatusCode(_, _)
InsertStatusCode(x, q) ==
    IF q = <<>> THEN <<x>>
    ELSE IF compareStatusCodes(x, q[1]) < 0 THEN <<x>> \o q
         ELSE <<q[1]>> \o InsertStatusCode(x, Tail(q))

RECURSIVE sortStatusCodes(_)
sortStatusCodes(statusCodes) ==
    IF statusCodes = <<>> THEN <<>>
    ELSE InsertStatusCode(statusCodes[Len(statusCodes)],
                          sortStatusCodes(SubSeq(statusCodes, 1, Len(statusCodes) - 1)))

\* .filter((code) => code !== "500")
Without500(codes) == SelectSeq(codes, LAMBDA c : c # Code500)

\* methods.post: the operation stored under the key "post"
HasPostKey(item) == \E k \in DOMAIN item.methods : item.methods[k].method = "post"

PostOf(item) ==
    item.methods[CHOOSE k \in DOMAIN item.methods : item.methods[k].method = "post"]

prioritizedRoutes == <<"/users", "/trainees">>

priorityFor(item) ==
    IF item.route \in {"/users", "/trainees"} /\ HasPostKey(item) THEN 1
    ELSE IF item.route = "/sessions" /\ HasPostKey(item) THEN 2
    ELSE 3

RECURSIVE InsertItem(_, _)
InsertItem(x, q) ==
    IF q = <<>> THEN <<x>>
    ELSE IF priorityFor(x) - priorityFor(q[1]) < 0 THEN <<x>> \o q
         ELSE <<q[1]>> \o InsertItem(x, Tail(q))

\* pathList.sort((a, b) => priorityFor(a) - priorityFor(b))
RECURSIVE SortPathList(_)
SortPathList(pathList) ==
    IF pathList = <<>> THEN <<>>
    ELSE InsertItem(pathList[Len(pathList)],
                    SortPathList(SubSeq(pathList, 1, Len(pathList) - 1)))

\* pathList.find(item => item.route === route): a one-element list, or none
FindRoute(pathList, route) == SelectSeq(pathList, LAMBDA item : item.route = route)

\* a line t("METHOD route", true, code, ...)
RegistrationWithAuth(method, route, code, pass) ==
    [kind |-> "t", method |-> method, route |-> route, code |-> code,
     auth |-> TRUE, pass |-> pass]

\* a line t("METHOD route", false, code, ...) of the generated module
Registration(method, route, code, pass) ==
    [kind |-> "t", method |-> method, route |-> route, code |-> code,
     auth |-> FALSE, pass |-> pass]

Marker(kind, route) ==
    [kind |-> kind, method |-> "", route |-> route, code |-> <<>>,
     auth |-> FALSE, pass |-> kind]

RECURSIVE Flatten(_)
Flatten(qq) == IF qq = <<>> THEN <<>> ELSE qq[1] \o Flatten(Tail(qq))

\* the registrations of one operation: its status codes sorted, 500 dropped
LinesOf(method, route, op, pass) ==
    LET codes == Without500(sortStatusCodes(ObjectKeys(op.responses)))
    IN  [k \in DOMAIN codes |-> Registration(method, route, codes[k], pass)]

\* the first pass without the warning
PriorityLinesNoWarning(pathList, route) ==
    LET found == FindRoute(pathList, route)
    IN  IF found # <<>> /\ HasPostKey(found[1])
        THEN LinesOf("POST", route, PostOf(found[1]), "priority")
        ELSE <<>>

\* 1. POST /users and POST /trainees, with the warning when 409 is missing
PriorityLines(pathList, route) ==
    LET found == FindRoute(pathList, route)
    IN  IF found # <<>> /\ HasPostKey(found[1])
        THEN LET lines == LinesOf("POST", route, PostOf(found[1]), "priority")
             IN  IF \E k \in DOMAIN lines : lines[k].code = Code409
                 THEN lines
                 ELSE Append(lines, Marker("warning", route))
        ELSE <<>>

\* 2. POST /sessions
SessionLines(pathList) ==
    LET found == FindRoute(pathList, "/sessions")
    IN  IF found # <<>> /\ HasPostKey(found[1])
        THEN LinesOf("POST", "/sessions", PostOf(found[1]), "sessions")
        ELSE <<>>

\* the third pass without its continue
GeneralLinesNoSkip(item) ==
    Flatten([k \in DOMAIN item.methods |->
        LET op == item.methods[k]
        IN  LinesOf(ToUpperCase(op.method), item.route, op, "general")])

\* 3. every other operation of one route
GeneralLines(item) ==
    Flatten([k \in DOMAIN item.methods |->
        LET op == item.methods[k]
        IN  IF (\/ \E r \in DOMAIN prioritizedRoutes : prioritizedRoutes[r] = item.route
                \/ item.route = "/sessions")
               /\ ToLowerCase(op.method) = "post"
            THEN <<>>
            ELSE LinesOf(ToUpperCase(op.method), item.route, op, "general")])

\* call counts the calls of generateTestFile on the document, first holds
\* the lines of the first call
StartPlan(d) ==
    [pc |-> "start", doc |-> d, pathList |-> <<>>, test_lines |-> <<>>, i |-> 0,
     call |-> 1, first |-> <<>>]

GenInit ==
    /\ queuedTests = <<>>
    /\ ctx = [k \in {} |-> <<>>]
    /\ BASE_URL = Undefined
    /\ pc = "load"
    /\ idx = 0
    /\ res = NoRes
    /\ inflight = {}
    /\ running = {}
    /\ prepared = <<>>
    /\ wire = <<>>
    /\ calls = <<>>
    /\ log = <<>>
    /\ plan \in {StartPlan(d) : d \in Docs}

\* Step 6 without the synthetic probe
PlanRoutesNoProbe ==
    /\ plan.pc = "start"
    /\ plan' = [plan EXCEPT !.pc = "priority",
                            !.pathList = SortPathList(plan.doc),
                            !.test_lines = <<>>]
    /\ UNCHANGED engineVars

\* Step 6 with a test_lines that outlives the call
PlanRoutesKeepingLines ==
    /\ plan.pc = "start"
    /\ plan' = [plan EXCEPT !.pc = "priority",
                            !.pathList = SortPathList(plan.doc),
                            !.test_lines = Append(plan.test_lines,
                                Registration("POST", "/sessions", Code400, "probe"))]
    /\ UNCHANGED engineVars

\* Step 6 up to the synthetic probe: the sorted path list and the first
\* registration, t("POST /sessions", false, 400, ...)
PlanRoutes ==
    /\ plan.pc = "start"
    /\ plan' = [plan EXCEPT !.pc = "priority",
                            !.pathList = SortPathList(plan.doc),
                            !.test_lines = <<Registration("POST", "/sessions", Code400, "probe")>>]
    /\ UNCHANGED engineVars

EmitPriority ==
    /\ plan.pc = "priority"
    /\ plan' = [plan EXCEPT !.pc = "sessions",
                            !.test_lines = plan.test_lines
                                \o Flatten([r \in DOMAIN prioritizedRoutes |->
                                       PriorityLines(plan.pathList, prioritizedRoutes[r])])]
    /\ UNCHANGED engineVars

EmitSessions ==
    /\ plan.pc = "sessions"
    /\ plan' = [plan EXCEPT !.pc = "general",
                            !.i = 1,
                            !.test_lines = plan.test_lines \o SessionLines(plan.pathList)]
    /\ UNCHANGED engineVars

\* one turn of for (const { route, methods } of pathList)
EmitGeneral ==
    /\ plan.pc = "general"
    /\ plan.i <= Len(plan.pathList)
    /\ plan' = [plan EXCEPT !.i = plan.i + 1,
                            !.test_lines = plan.test_lines
                                \o GeneralLines(plan.pathList[plan.i])]
    /\ UNCHANGED engineVars

\* test_lines.push("runQueuedTests();")
FinishPlan ==
    /\ plan.pc = "general"
    /\ plan.i > Len(plan.pathList)
    /\ plan' = [plan EXCEPT !.pc = "done",
                            !.test_lines = Append(plan.test_lines, Marker("run", ""))]
    /\ UNCHANGED engineVars

\* generateTestFile is called again with the same document: the locals of
\* the first call are left as they were, the new call declares its own
generateAgain ==
    /\ plan.pc = "done"
    /\ plan.call = 1
    /\ plan' = [plan EXCEPT !.pc = "start", !.call = 2, !.first = plan.test_lines]
    /\ UNCHANGED engineVars

NextGen ==
    \/ PlanRoutes
    \/ EmitPriority
    \/ EmitSessions
    \/ EmitGeneral
    \/ FinishPlan
    \/ generateAgain

SpecGen == GenInit /\ [][NextGen]_vars

-----------------------------------------------------------------------------
(* The third definition of generateTestFile in testfile_generator.ts       *)
(* (lines 915-1173): one loop over the sorted path list                    *)

priorityFor3(item) ==
    IF item.route = "/users" /\ HasPostKey(item) THEN 1
    ELSE IF item.route = "/sessions" /\ HasPostKey(item) THEN 2
    ELSE 3

RECURSIVE InsertItem3(_, _)
InsertItem3(x, q) ==
    IF q = <<>> THEN <<x>>
    ELSE IF priorityFor3(x) - priorityFor3(q[1]) < 0 THEN <<x>> \o q
         ELSE <<q[1]>> \o InsertItem3(x, Tail(q))

RECURSIVE SortPathList3(_)
SortPathList3(pathList) ==
    IF pathList = <<>> THEN <<>>
    ELSE InsertItem3(pathList[Len(pathList)],
                     SortPathList3(SubSeq(pathList, 1, Len(pathList) - 1)))

\* sortedCodes.forEach(...) for every method of one route: every sorted
\* status code is registered
Lines3(item) ==
    Flatten([k \in DOMAIN item.methods |->
        LET op    == item.methods[k]
            codes == sortStatusCodes(ObjectKeys(op.responses))
        IN  [c \in DOMAIN codes |->
                Registration(ToUpperCase(op.method), item.route, codes[c], "loop")]])

PlanRoutes3 ==
    /\ plan.pc = "start"
    /\ plan' = [plan EXCEPT !.pc = "loop",
                            !.i = 1,
                            !.pathList = SortPathList3(plan.doc),
                            !.test_lines = <<>>]
    /\ UNCHANGED engineVars

\* one turn of for (const { route, methods } of pathList)
Emit3 ==
    /\ plan.pc = "loop"
    /\ plan.i <= Len(plan.pathList)
    /\ plan' = [plan EXCEPT !.i = plan.i + 1,
                            !.test_lines = plan.test_lines
                                \o Lines3(plan.pathList[plan.i])]
    /\ UNCHANGED engineVars

Finish3 ==
    /\ plan.pc = "loop"
    /\ plan.i > Len(plan.pathList)
    /\ plan' = [plan EXCEPT !.pc = "done",
                            !.test_lines = Append(plan.test_lines, Marker("run", ""))]
    /\ UNCHANGED engineVars

NextGen3 ==
    \/ PlanRoutes3
    \/ Emit3
    \/ Finish3

SpecGen3 == GenInit /\ [][NextGen3]_vars

-----------------------------------------------------------------------------
(* resolveRef: the values of a parsed document and the walk along a $ref   *)

\* the values of JavaScript that a document and its lookups can yield; an
\* object keeps its own members as <<key, value>> pairs in insertion order
JUndefined == [type |-> "undefined"]
JNull == [type |-> "null"]
JString(s) == [type |-> "string", value |-> s]
JFunction(name) == [type |-> "function", name |-> name]
JObject(pairs) == [type |-> "object", pairs |-> pairs]

\* Object.keys(o)
OwnKeys(o) == [k \in DOMAIN o.pairs |-> o.pairs[k][1]]

HasOwn(o, p) == \E k \in DOMAIN o.pairs : o.pairs[k][1] = p

\* members every object literal inherits from Object.prototype
ObjectPrototype ==
    [constructor |-> JFunction("Object"), toString |-> JFunction("toString")]

\* cur[p] for an object cur: an own member, else an inherited one, else
\* undefined
GetMember(cur, p) ==
    IF HasOwn(cur, p)
    THEN cur.pairs[CHOOSE k \in DOMAIN cur.pairs : cur.pairs[k][1] = p][2]
    ELSE IF p \in DOMAIN ObjectPrototype THEN ObjectPrototype[p]
    ELSE JUndefined

\* cur[p] that misses what is inherited
GetOwnMember(cur, p) ==
    IF HasOwn(cur, p)
    THEN cur.pairs[CHOOSE k \in DOMAIN cur.pairs : cur.pairs[k][1] = p][2]
    ELSE JUndefined

\* the truthiness of a value: null, undefined and "" are falsy
IsTruthy(v) ==
    CASE v.type \in {"undefined", "null"} -> FALSE
      [] v.type = "string" -> v.value # <<>>
      [] OTHER -> TRUE

\* A $ref is the sequence of its pieces: the characters "#" and "/" and the
\* names between them.  startsWith('#/')
StartsWithHashSlash(ref) == Len(ref) >= 2 /\ ref[1] = "#" /\ ref[2] = "/"

\* s.split('/'): the pieces between the slashes, "" split gives one empty
\* segment
RECURSIVE SplitOnSlash(_, _)
SplitOnSlash(s, cur) ==
    IF s = <<>> THEN <<cur>>
    ELSE IF s[1] = "/" THEN <<cur>> \o SplitOnSlash(Tail(s), <<>>)
    ELSE SplitOnSlash(Tail(s), Append(cur, s[1]))

\* the property name a segment spells (a segment holds at most one name)
SegmentKey(seg) == IF seg = <<>> THEN "" ELSE seg[1]

\* for (const p of path) { if (cur && typeof cur === 'object') cur = cur[p];
\* else return undefined; } return cur;
RECURSIVE Walk(_, _)
Walk(cur, path) ==
    IF path = <<>> THEN cur
    ELSE IF IsTruthy(cur) /\ cur.type = "object"
         THEN Walk(GetMember(cur, SegmentKey(path[1])), Tail(path))
         ELSE JUndefined

resolveRef(obj, ref) ==
    IF ~StartsWithHashSlash(ref) THEN JUndefined
    ELSE Walk(obj, SplitOnSlash(SubSeq(ref, 3, Len(ref)), <<>>))

\* documents to resolve in
UserSchema == JObject(<< <<"example", JObject(<< <<"username", JString(<<"u">>)>> >>)>> >>)

PlainSchema == JObject(<< <<"type", JString(<<"o">>)>> >>)

Components(schemas) ==
    JObject(<< <<"components",
                 JObject(<< <<"schemas", schemas>>, <<"nothing", JNull>> >>)>> >>)

RefDocs ==
    { JObject(<<>>),
      Components(JObject(<< <<"User", UserSchema>> >>)),
      Components(JObject(<< <<"User", PlainSchema>>, <<"Other", UserSchema>> >>)),
      Components(JObject(<<>>)),
      JObject(<< <<"", UserSchema>> >>),
      JUndefined }

\* a $ref with the '#/' prefix it has (or has not) and the segments it
\* names
Ref(prefixed, segments) ==
    [text |-> (IF prefixed THEN <<"#", "/">> ELSE <<>>)
                \o Flatten([k \in DOMAIN segments |->
                       (IF k = 1 THEN <<>> ELSE <<"/">>)
                       \o (IF segments[k] = "" THEN <<>> ELSE <<segments[k]>>)]),
     prefixed |-> prefixed,
     segments |-> segments]

SegmentLists ==
    { <<"components">>,
      <<"components", "schemas">>,
      <<"components", "schemas", "User">>,
      <<"components", "schemas", "User", "example">>,
      <<"components", "schemas", "User", "example", "username">>,
      <<"components", "schemas", "User", "example", "username", "x">>,
      <<"components", "schemas", "Missing">>,
      <<"missing", "schemas", "User">>,
      <<"components", "nothing">>,
      <<"components", "nothing", "x">>,
      <<"components", "">>,
      <<"", "components">>,
      <<"">>,
      <<"constructor">>,
      <<"components", "schemas", "toString">>,
      <<"constructor", "name">> }

Refs ==
    {Ref(prefixed, segments) : prefixed \in BOOLEAN, segments \in SegmentLists}
        \cup { [text |-> <<"#">> \o Ref(FALSE, segments).text,
                prefixed |-> FALSE, segments |-> segments] :
               segments \in {<<"components">>, <<"">>} }

EngineIdle ==
    /\ queuedTests = <<>>
    /\ ctx = [k \in {} |-> <<>>]
    /\ BASE_URL = Undefined
    /\ pc = "load"
    /\ idx = 0
    /\ res = NoRes
    /\ inflight = {}
    /\ running = {}
    /\ prepared = <<>>
    /\ wire = <<>>
    /\ calls = <<>>
    /\ log = <<>>

InitRef ==
    /\ EngineIdle
    /\ plan \in {[pc |-> "call", obj |-> d, ref |-> r, result |-> JUndefined] :
                    d \in RefDocs, r \in Refs}

\* one call resolveRef(obj, ref)
CallResolveRef ==
    /\ plan.pc = "call"
    /\ plan' = [plan EXCEPT !.pc = "returned",
                            !.result = resolveRef(plan.obj, plan.ref.text)]
    /\ UNCHANGED engineVars

NextRef == CallResolveRef

SpecRef == InitRef /\ [][NextRef]_vars

-----------------------------------------------------------------------------
(* generateTestFile from its options to the files it writes                *)

\* links and server urls, as strings of characters
\* https://h/d/, https://h, and h/d, which is no URL
Link ==
    [docs |-> <<"h", "t", "t", "p", "s", ":", "/", "/", "h", "/", "d", "/">>,
     host |-> <<"h", "t", "t", "p", "s", ":", "/", "/", "h">>,
     bad  |-> <<"h", "/", "d">>]

\* http://a/, https://a/v, /, /v, and a/v
Server ==
    [http     |-> <<"h", "t", "t", "p", ":", "/", "/", "a", "/">>,
     https    |-> <<"h", "t", "t", "p", "s", ":", "/", "/", "a", "/", "v">>,
     root     |-> <<"/">>,
     relative |-> <<"/", "v">>,
     other    |-> <<"a", "/", "v">>]

\* swaggerDoc.servers, each server by its url
ServerLists ==
    {<<>>, <<Server.http>>, <<Server.https, Server.root>>, <<Server.root>>,
     <<Server.relative, Server.http>>, <<Server.other>>}

\* requestBody: { content: { "application/json": { schema } } }
RequestBody(schema) ==
    JObject(<< <<"content",
                 JObject(<< <<"application/json",
                              JObject(<< <<"schema", schema>> >>)>> >>)>> >>)

\* { $ref: "#/components/schemas/<name>" }
SchemaRef(name) ==
    JObject(<< <<"$ref", JString(Ref(TRUE, <<"components", "schemas", name>>).text)>> >>)

Operation(method, responses, body) ==
    [method |-> method, responses |-> responses, requestBody |-> body]

Created == <<<<"2", "0", "1">>, <<"4", "0", "9">>, <<"5", "0", "0">>>>

\* the paths of the documents a run acquires: request bodies whose schema
\* is a $ref that resolves, a $ref to a missing target, or inline; method
\* keys in lower case and in upper case
RunPaths ==
    { <<>>,
      <<[route |-> "/users", methods |->
            <<Operation("POST", Created, JUndefined)>>]>>,
      <<[route |-> "/items", methods |->
            <<Operation("POST", Created, JUndefined)>>]>>,
      <<[route |-> "/users", methods |->
            <<Operation("post", Created, RequestBody(SchemaRef("User")))>>]>>,
      <<[route |-> "/users", methods |->
            <<Operation("post", Created, RequestBody(SchemaRef("Missing")))>>]>>,
      <<[route |-> "/sessions", methods |->
            <<Operation("post", Created, RequestBody(SchemaRef("Missing")))>>]>>,
      <<[route |-> "/items", methods |->
            <<Operation("post", <<Code500>>, RequestBody(SchemaRef("Missing")))>>]>>,
      <<[route |-> "/items", methods |->
            <<Operation("get", Created, RequestBody(SchemaRef("Missing"))),
              Operation("post", Created, RequestBody(PlainSchema))>>]>>,
      <<[route |-> "/items", methods |->
            <<Operation("post", Created, RequestBody(SchemaRef("Missing")))>>],
        [route |-> "/users", methods |->
            <<Operation("post", Created, JUndefined)>>]>> }

RunDocs ==
    {[servers |-> sv, paths |-> p,
      tree |-> Components(JObject(<< <<"User", UserSchema>> >>))] :
        sv \in ServerLists, p \in RunPaths}

\* v.k and v?.k: reading a member of null or undefined throws unless the
\* access is optional
JThrown == [type |-> "thrown"]

Prop(v, k, optional) ==
    IF v.type \in {"undefined", "null"} THEN (IF optional THEN JUndefined ELSE JThrown)
    ELSE IF v.type = "object" THEN GetMember(v, k)
    ELSE JUndefined

\* exampleBody = {} filled from the properties that have an example; a
\* property that is null makes v.example throw
PropertyExamples(properties) ==
    IF properties.type # "object" THEN JObject(<<>>)
    ELSE IF \E k \in DOMAIN properties.pairs :
                properties.pairs[k][2].type \in {"undefined", "null"}
         THEN JThrown
         ELSE LET withExample ==
                      SelectSeq(properties.pairs,
                                LAMBDA kv : Prop(kv[2], "example", FALSE) # JUndefined)
              IN  JObject([k \in DOMAIN withExample |->
                      <<withExample[k][1], Prop(withExample[k][2], "example", FALSE)>>])

\* the request-body example of an operation: examples, then example, then
\* the schema, resolved when it is a $ref.  The result is the example, or
\* undefined, or the throw of a TypeError.  lenient is the ex?.value of the
\* third pass, where the first two read exs[k].value.
RequestExample(tree, detail, lenient) ==
    LET body         == IF "requestBody" \in DOMAIN detail THEN detail.requestBody
                        ELSE JUndefined
        jsonContent  == Prop(Prop(body, "content", TRUE), "application/json", TRUE)
        exs          == Prop(jsonContent, "examples", FALSE)
        firstKey     == IF exs.type = "object" /\ exs.pairs # <<>>
                        THEN exs.pairs[1][1] ELSE ""
        fromExamples == IF IsTruthy(exs) /\ firstKey # ""
                        THEN Prop(GetMember(exs, firstKey), "value", lenient)
                        ELSE JUndefined
        example      == IF fromExamples = JUndefined
                        THEN Prop(jsonContent, "example", FALSE)
                        ELSE fromExamples
        sch          == Prop(jsonContent, "schema", FALSE)
        ref          == Prop(sch, "$ref", FALSE)
        resolved     == IF IsTruthy(ref) THEN resolveRef(tree, ref.value) ELSE sch
        fromSchema   == IF Prop(resolved, "example", FALSE) # JUndefined
                        THEN Prop(resolved, "example", FALSE)
                        ELSE IF IsTruthy(Prop(resolved, "properties", FALSE))
                             THEN PropertyExamples(Prop(resolved, "properties", FALSE))
                             ELSE JUndefined
    IN  IF ~IsTruthy(jsonContent) THEN JUndefined
        ELSE IF fromExamples = JThrown THEN JThrown
        ELSE IF example = JUndefined /\ IsTruthy(sch) THEN fromSchema
        ELSE example

\* some request-body extraction of Step 6 throws: in the first two passes
\* the example is extracted before the status codes are looked at, in the
\* third pass once per registered status code of a method that is neither
\* get nor delete
ExtractionThrows(d) ==
    LET pathList == SortPathList(d.paths)
    IN  \/ \E route \in {prioritizedRoutes[r] : r \in DOMAIN prioritizedRoutes}
                   \cup {"/sessions"} :
              LET found == FindRoute(pathList, route)
              IN  /\ found # <<>>
                  /\ HasPostKey(found[1])
                  /\ RequestExample(d.tree, PostOf(found[1]), FALSE) = JThrown
        \/ \E i \in DOMAIN pathList : \E k \in DOMAIN pathList[i].methods :
              LET op == pathList[i].methods[k]
              IN  /\ ~(pathList[i].route \in {"/users", "/trainees", "/sessions"}
                       /\ ToLowerCase(op.method) = "post")
                  /\ ToLowerCase(op.method) \notin {"get", "delete"}
                  /\ Without500(sortStatusCodes(ObjectKeys(op.responses))) # <<>>
                  /\ RequestExample(d.tree, op, TRUE) = JThrown

\* the registrations of Step 6 for the paths of a document
PlanLines(paths) ==
    LET pathList == SortPathList(paths)
    IN  <<Registration("POST", "/sessions", Code400, "probe")>>
          \o Flatten([r \in DOMAIN prioritizedRoutes |->
                 PriorityLines(pathList, prioritizedRoutes[r])])
          \o SessionLines(pathList)
          \o Flatten([i \in DOMAIN pathList |-> GeneralLines(pathList[i])])
          \o <<Marker("run", "")>>

StartsWithHttp(url) == Len(url) >= 4 /\ SubSeq(url, 1, 4) = <<"h", "t", "t", "p">>

\* a base URL that keeps its trailing slash
KeepTrailingSlash(url) == url

\* firstServerUrl.replace(/\/$/, "")
StripTrailingSlash(url) ==
    IF url # <<>> /\ url[Len(url)] = "/" THEN SubSeq(url, 1, Len(url) - 1) ELSE url

\* the host of a URL: what follows the "//" up to the next "/"
RECURSIVE HostOf(_)
HostOf(rest) ==
    IF rest = <<>> \/ rest[1] = "/" THEN <<>> ELSE <<rest[1]>> \o HostOf(Tail(rest))

\* new URL(link) and `${u.protocol}//${u.host}`: a link without an http(s)
\* scheme and a host makes the constructor throw
OriginOf(link) ==
    LET text   == ToText(link)
        scheme == IF Len(text) >= 8 /\ SubSeq(text, 1, 8) = <<"h", "t", "t", "p", "s", ":", "/", "/">>
                  THEN 8
                  ELSE IF Len(text) >= 7 /\ SubSeq(text, 1, 7) = <<"h", "t", "t", "p", ":", "/", "/">>
                       THEN 7 ELSE 0
        host   == HostOf(SubSeq(text, scheme + 1, Len(text)))
    IN  IF scheme = 0 \/ host = <<>> THEN [threw |-> TRUE, value |-> <<>>]
        ELSE [threw |-> FALSE, value |-> SubSeq(text, 1, scheme) \o host]

\* studentName.toLowerCase()
LowerCaseText(name) ==
    [k \in DOMAIN name |->
        CASE name[k] = "A" -> "a" [] name[k] = "B" -> "b" [] OTHER -> name[k]]

\* the options generateTestFile is called with
RunOptions ==
    [studentName : {Undefined, <<"A">>}, assignmentId : {Undefined, <<"1">>},
     swaggerUiLink : {Undefined, Link.docs, Link.host, Link.bad},
     specFilePath : {Undefined, <<"f">>}, interactive : BOOLEAN]

\* what the operator answers to the prompts
Answers ==
    [studentName : {Undefined, <<"B">>}, assignmentId : {Undefined, <<"2">>},
     swaggerUiLink : {Undefined, Link.host}]

NoDocument == [servers |-> <<>>, paths |-> <<>>, tree |-> JUndefined]

StartRun(o) ==
    [pc |-> "options", studentName |-> o.studentName, assignmentId |-> o.assignmentId,
     swaggerUiLink |-> o.swaggerUiLink, specFilePath |-> o.specFilePath,
     interactive |-> o.interactive, swaggerDoc |-> NoDocument, bakedBaseUrl |-> <<>>,
     test_lines |-> <<>>, files |-> {}, fault |-> "none",
     script |-> <<>>, walked |-> FALSE]

InitRun ==
    /\ EngineIdle
    /\ plan \in {StartRun(o) : o \in RunOptions}

\* a fault that does not end the call
FallsThrough(p, message) == [p EXCEPT !.pc = "write", !.fault = message]

\* console.error(message); return;
Returns(p, message) == [p EXCEPT !.pc = "returned", !.fault = message]

\* the prompts for what the options leave out
AskOperator ==
    /\ plan.pc = "options"
    /\ LET askName == ~Truthy(plan.studentName) /\ plan.interactive
           askId   == ~Truthy(plan.assignmentId) /\ plan.interactive
           askLink == /\ ~Truthy(plan.swaggerUiLink)
                      /\ ~Truthy(plan.specFilePath)
                      /\ plan.interactive
       IN  \E a \in Answers :
              /\ ~askName => a.studentName = Undefined
              /\ ~askId => a.assignmentId = Undefined
              /\ ~askLink => a.swaggerUiLink = Undefined
              /\ plan' = [plan EXCEPT
                    !.pc = "check",
                    !.studentName = IF Truthy(@) THEN @ ELSE a.studentName,
                    !.assignmentId = IF Truthy(@) THEN @ ELSE a.assignmentId,
                    !.swaggerUiLink = IF Truthy(@) THEN @ ELSE a.swaggerUiLink]
    /\ UNCHANGED engineVars

CheckOptions ==
    /\ plan.pc = "check"
    /\ plan' =
         IF ~Truthy(plan.studentName) THEN Returns(plan, "Student name is required.")
         ELSE IF ~Truthy(plan.assignmentId)
              THEN Returns(plan, "Assignment number is required.")
         ELSE IF ~Truthy(plan.swaggerUiLink) /\ ~Truthy(plan.specFilePath)
              THEN Returns([plan EXCEPT !.studentName = LowerCaseText(@),
                                        !.assignmentId = LowerCaseText(@)],
                           "Either a Swagger UI link or an OpenAPI spec file path is required.")
         ELSE [plan EXCEPT !.pc = "acquire",
                           !.studentName = LowerCaseText(@),
                           !.assignmentId = LowerCaseText(@)]
    /\ UNCHANGED engineVars

\* the spec file is missing, is not JSON, or holds a document
ReadSpecFile ==
    /\ plan.pc = "acquire"
    /\ Truthy(plan.specFilePath)
    /\ \/ \E message \in {"File not found", "Failed to parse the spec file as JSON"} :
             plan' = Returns(plan, message)
       \/ \E d \in RunDocs :
             plan' = [plan EXCEPT !.pc = "baseurl", !.swaggerDoc = d]
    /\ UNCHANGED engineVars

\* a node of the parsed swagger-ui-init.js: its type, the name it declares,
\* assigns or keys, and the document its init, right or value evaluates to
\* (null for a declaration without an initialiser)
AstNode(type, name, value) == [type |-> type, name |-> name, value |-> value]

\* two documents that differ, to tell the matching nodes of one script apart
DocA == [servers |-> <<Server.http>>, paths |-> <<>>,
         tree |-> Components(JObject(<< <<"User", UserSchema>> >>))]

DocB == [servers |-> <<Server.https, Server.root>>, paths |-> <<>>,
         tree |-> Components(JObject(<< <<"User", UserSchema>> >>))]

\* scripts, each the nodes of its tree in the order acornWalk.simple
\* reaches them: no node of interest; one declaration of any document;
\* several nodes named swaggerDoc; nodes of the three types under
\* another name; a declaration without initialiser after an assignment
Scripts ==
    { <<>>,
      <<AstNode("VariableDeclarator", "options", DocA),
        AstNode("AssignmentExpression", "options", DocB),
        AstNode("Property", "options", DocA)>>,
      <<AstNode("VariableDeclarator", "swaggerDoc", DocA),
        AstNode("AssignmentExpression", "swaggerDoc", DocB)>>,
      <<AstNode("Property", "swaggerDoc", DocB),
        AstNode("VariableDeclarator", "options", DocB),
        AstNode("VariableDeclarator", "swaggerDoc", DocA)>>,
      <<AstNode("AssignmentExpression", "swaggerDoc", DocA),
        AstNode("CallExpression", "swaggerDoc", DocB)>>,
      <<AstNode("AssignmentExpression", "swaggerDoc", DocA),
        AstNode("VariableDeclarator", "swaggerDoc", JNull)>> }
      \cup {<<AstNode("VariableDeclarator", "swaggerDoc", d)>> : d \in RunDocs}

\* the three visitors test the name of the node they are called for
IsSwaggerDocNode(node) ==
    /\ node.type \in {"VariableDeclarator", "AssignmentExpression", "Property"}
    /\ node.name = "swaggerDoc"

\* let swaggerDocNode = null; every visitor that matches assigns it anew
RECURSIVE WalkSimple(_, _)
WalkSimple(script, swaggerDocNode) ==
    IF script = <<>> THEN swaggerDocNode
    ELSE WalkSimple(Tail(script),
                    IF IsSwaggerDocNode(script[1]) THEN script[1].value
                    ELSE swaggerDocNode)

\* swagger-ui-init.js cannot be downloaded, does not parse, holds no
\* swaggerDoc, or holds a document; a link that is no URL cannot be
\* downloaded from
FetchSwaggerUi ==
    /\ plan.pc = "acquire"
    /\ ~Truthy(plan.specFilePath)
    /\ \/ plan' = Returns(plan, "Failed to download swagger-ui-init.js")
       \/ /\ ~OriginOf(plan.swaggerUiLink).threw
          /\ \/ plan' = Returns(plan, "Error parsing swagger-ui-init.js")
             \/ \E script \in Scripts :
                   LET swaggerDocNode == WalkSimple(script, JNull)
                       walked == [plan EXCEPT !.script = script, !.walked = TRUE]
                   IN  plan' =
                         IF swaggerDocNode = JNull
                         THEN Returns(walked, "Could not find swaggerDoc in swagger-ui-init.js")
                         ELSE [walked EXCEPT !.pc = "baseurl",
                                             !.swaggerDoc = swaggerDocNode]
    /\ UNCHANGED engineVars

\* Step 5: the base URL baked into the module
DeriveBaseUrl ==
    /\ plan.pc = "baseurl"
    /\ LET servers == plan.swaggerDoc.servers
           origin  == OriginOf(plan.swaggerUiLink)
           derived(url) == [plan EXCEPT !.pc = "generate", !.bakedBaseUrl = url]
           fromLink == IF origin.threw
                       THEN Returns(plan, "Could not parse swaggerUiLink to extract base URL")
                       ELSE derived(origin.value)
       IN  IF servers # <<>>
           THEN plan' = IF StartsWithHttp(servers[1])
                        THEN derived(StripTrailingSlash(servers[1]))
                        ELSE fromLink
           ELSE IF Truthy(plan.swaggerUiLink) THEN plan' = fromLink
           ELSE IF plan.interactive
                THEN \E apiBaseUrl \in {<<>>, Link.host} :
                        plan' = IF Truthy(apiBaseUrl) THEN derived(apiBaseUrl)
                                ELSE Returns(plan, "API base URL is required to generate test script")
                ELSE plan' = derived(plan.bakedBaseUrl)
    /\ UNCHANGED engineVars

\* Step 6: the lines of the module, unless an extraction throws
GenerateLines ==
    /\ plan.pc = "generate"
    /\ plan' = IF ExtractionThrows(plan.swaggerDoc)
               THEN [plan EXCEPT !.pc = "threw"]
               ELSE [plan EXCEPT !.pc = "write",
                                 !.test_lines = PlanLines(plan.swaggerDoc.paths)]
    /\ UNCHANGED engineVars

\* writeFileSync of the test module and of the document as JSON
WriteFiles ==
    /\ plan.pc = "write"
    /\ plan' = [plan EXCEPT
          !.pc = "done",
          !.files = { [kind |-> kind, studentName |-> plan.studentName,
                       assignmentId |-> plan.assignmentId,
                       baseUrl |-> IF kind = "module" THEN ToText(plan.bakedBaseUrl)
                                   ELSE <<>>] :
                      kind \in {"module", "sidecar"} }]
    /\ UNCHANGED engineVars

NextRun ==
    \/ AskOperator
    \/ CheckOptions
    \/ ReadSpecFile
    \/ FetchSwaggerUi
    \/ DeriveBaseUrl
    \/ GenerateLines
    \/ WriteFiles

SpecRun == InitRun /\ [][NextRun]_vars

-----------------------------------------------------------------------------
(* The third pass for one operation and one status code: the body and the  *)
(* callback of the registration it emits                                   *)

\* JSON.stringify(v) as the pieces of its text: a member whose value is
\* undefined or a function is left out, null is kept
RECURSIVE JsonStringify(_)
JsonStringify(v) ==
    CASE v.type = "object" ->
           LET kept == SelectSeq(v.pairs,
                           LAMBDA kv : kv[2].type \notin {"undefined", "function"})
           IN  <<"{">>
                 \o Flatten([k \in DOMAIN kept |->
                        (IF k = 1 THEN <<>> ELSE <<",">>)
                          \o <<"\"", kept[k][1], "\"", ":">>
                          \o JsonStringify(kept[k][2])])
                 \o <<"}">>
      [] v.type = "string" -> <<"\"">> \o v.value \o <<"\"">>
      [] v.type = "null" -> <<"null">>
      [] OTHER -> <<>>

\* { content: { "application/json": media } }
JsonContent(media) ==
    JObject(<< <<"content", JObject(<< <<"application/json", media>> >>)>> >>)

\* { <name>: <text> } and objects of two such members
Field(name, text) == <<name, JString(<<text>>)>>

\* the document the operations are looked up in: a schema with an example
\* and a response component with both examples and example
CaseTree ==
    JObject(<< <<"components", JObject(<<
        <<"schemas", JObject(<< <<"User", UserSchema>> >>)>>,
        <<"responses", JObject(<< <<"Err", JsonContent(JObject(<<
            <<"examples", JObject(<< <<"first", JObject(<<
                <<"value", JObject(<<Field("detail", "d")>>)>> >>)>> >>)>>,
            <<"example", JObject(<<Field("message", "m")>>)>> >>))>> >>)>> >>)>> >>)

\* request bodies: none; example; examples and example; per-property
\* examples; a schema $ref with an example; a schema without any
CaseRequestBodies ==
    { JUndefined,
      JsonContent(JObject(<< <<"example", JObject(<<Field("name", "n")>>)>> >>)),
      JsonContent(JObject(<<
          <<"examples", JObject(<< <<"first", JObject(<<
              <<"value", JObject(<<Field("title", "t")>>)>> >>)>> >>)>>,
          <<"example", JObject(<<Field("name", "n")>>)>> >>)),
      JsonContent(JObject(<< <<"schema", JObject(<< <<"properties", JObject(<<
          <<"p", JObject(<<Field("example", "v")>>)>>,
          <<"q", JObject(<<Field("type", "s")>>)>> >>)>> >>)>> >>)),
      RequestBody(SchemaRef("User")),
      RequestBody(PlainSchema) }

\* responses: a description only; schema properties with examples; an
\* example of two fields; an example without fields; examples and example;
\* examples only; a schema $ref with an example; a response $ref; an
\* example that is a string
CaseResponses ==
    { JObject(<<Field("description", "x")>>),
      JsonContent(JObject(<< <<"schema", JObject(<< <<"properties", JObject(<<
          <<"id", JObject(<<Field("example", "1")>>)>>,
          <<"kind", JObject(<<Field("type", "s")>>)>>,
          <<"name", JObject(<<Field("example", "n")>>)>> >>)>> >>)>> >>)),
      JsonContent(JObject(<< <<"example",
          JObject(<<Field("message", "m"), Field("code", "c")>>)>> >>)),
      JsonContent(JObject(<< <<"example", JObject(<<>>)>> >>)),
      JsonContent(JObject(<<
          <<"examples", JObject(<< <<"first", JObject(<<
              <<"value", JObject(<<Field("id", "1"), Field("name", "n")>>)>> >>)>> >>)>>,
          <<"example", JObject(<<Field("message", "m")>>)>> >>)),
      JsonContent(JObject(<<
          <<"examples", JObject(<< <<"first", JObject(<<
              <<"value", JObject(<<Field("id", "1"), Field("name", "n")>>)>> >>)>> >>)>> >>)),
      RequestBody(SchemaRef("User")),
      JObject(<< <<"$ref", JString(Ref(TRUE, <<"components", "responses", "Err">>).text)>> >>),
      JsonContent(JObject(<< <<"example", JString(<<"text">>)>> >>)) }

CaseCodes ==
    {<<"2", "0", "1">>, <<"3", "9", "9">>, Code400, <<"5", "9", "9">>, <<"6", "0", "0">>}

\* the operations of the pass: detail.requestBody and detail.responses[code]
CaseDetails ==
    [method : {"post", "get"}, route : {"/items"}, requestBody : CaseRequestBodies,
     response : CaseResponses, code : CaseCodes]

\* respJson after the response $ref is resolved, then
\* respJson?.content?.["application/json"]
ContentJson(tree, originalRespJson) ==
    LET ref      == Prop(originalRespJson, "$ref", TRUE)
        target   == IF IsTruthy(ref) THEN resolveRef(tree, ref.value) ELSE JUndefined
        respJson == IF IsTruthy(target) THEN target ELSE originalRespJson
    IN  Prop(Prop(respJson, "content", TRUE), "application/json", TRUE)

\* the names of the schema properties that are objects with an example
FieldsWithExamples(contentJson) ==
    LET properties == Prop(Prop(contentJson, "schema", TRUE), "properties", TRUE)
        withExample ==
            IF IsTruthy(properties) /\ properties.type = "object"
            THEN SelectSeq(properties.pairs,
                     LAMBDA kv : /\ kv[2].type = "object"
                                 /\ Prop(kv[2], "example", FALSE) # JUndefined)
            ELSE <<>>
    IN  [k \in DOMAIN withExample |-> withExample[k][1]]

\* examples[firstKey].value when truthy, else example when truthy
extractResponseExamples(respObj) ==
    LET media    == Prop(Prop(respObj, "content", TRUE), "application/json", TRUE)
        examples == Prop(media, "examples", TRUE)
        firstKey == IF examples.type = "object" /\ examples.pairs # <<>>
                    THEN examples.pairs[1][1] ELSE ""
        value    == IF IsTruthy(examples) /\ firstKey # ""
                    THEN Prop(GetMember(examples, firstKey), "value", TRUE)
                    ELSE JUndefined
    IN  IF ~IsTruthy(respObj) \/ respObj.type # "object" THEN JUndefined
        ELSE IF IsTruthy(value) THEN value
        ELSE IF IsTruthy(Prop(media, "example", TRUE)) THEN Prop(media, "example", TRUE)
        ELSE JUndefined

\* responseExample: 1. contentJson.example when truthy, else the value of
\* the first entry of contentJson.examples; 2. the example of the schema a
\* schema $ref names; 3. the examples of the component a response $ref names
ResponseExample(tree, originalRespJson) ==
    LET contentJson == ContentJson(tree, originalRespJson)
        examples    == Prop(contentJson, "examples", TRUE)
        respEx      == IF examples.type = "object" /\ examples.pairs # <<>>
                       THEN examples.pairs[1][2] ELSE JUndefined
        direct      == IF IsTruthy(Prop(contentJson, "example", TRUE))
                       THEN Prop(contentJson, "example", TRUE)
                       ELSE IF IsTruthy(examples) THEN Prop(respEx, "value", TRUE)
                       ELSE JUndefined
        schemaRef   == Prop(Prop(contentJson, "schema", TRUE), "$ref", TRUE)
        refSchema   == IF IsTruthy(schemaRef) THEN resolveRef(tree, schemaRef.value)
                       ELSE JUndefined
        fromSchema  == IF direct = JUndefined /\ IsTruthy(Prop(refSchema, "example", TRUE))
                       THEN Prop(refSchema, "example", TRUE)
                       ELSE direct
        respRef     == Prop(originalRespJson, "$ref", TRUE)
        refResp     == IF IsTruthy(respRef) THEN resolveRef(tree, respRef.value)
                       ELSE JUndefined
        refExample  == IF IsTruthy(refResp) THEN extractResponseExamples(refResp)
                       ELSE JUndefined
    IN  IF fromSchema = JUndefined /\ IsTruthy(refExample) THEN refExample
        ELSE fromSchema

\* a registration with the text of its body and the fields its callback
\* asserts with expect_field; no callback asserts no field
WithBody(line, body, fields) == line @@ [body |-> body, callback |-> fields]

\* the line of one status code of one operation in the third pass
GeneralCase(tree, detail) ==
    LET line == Registration(ToUpperCase(detail.method), detail.route, detail.code, "general")
        exampleBody == RequestExample(tree, detail, TRUE)
        fieldsWithExamples == FieldsWithExamples(ContentJson(tree, detail.response))
        responseExample == ResponseExample(tree, detail.response)
        orEmpty == IF exampleBody \in {JUndefined, JNull} THEN JObject(<<>>)
                   ELSE exampleBody
        codeNum == ParseInt(detail.code)
    IN  IF ToLowerCase(detail.method) \in {"get", "delete"}
        THEN WithBody(line, <<>>, <<>>)
        ELSE IF fieldsWithExamples # <<>>
        THEN WithBody(line, JsonStringify(JObject(<<>>)), fieldsWithExamples)
        ELSE IF IsTruthy(responseExample) /\ responseExample.type = "object"
        THEN WithBody(line, JsonStringify(orEmpty), OwnKeys(responseExample))
        ELSE IF exampleBody # JUndefined
        THEN WithBody(line, JsonStringify(exampleBody), <<>>)
        ELSE IF codeNum >= 400 /\ codeNum < 600
        THEN WithBody(line, JsonStringify(JObject(<<>>)), <<"message">>)
        ELSE WithBody(line, JsonStringify(JObject(<<>>)), <<>>)

InitCase ==
    /\ EngineIdle
    /\ plan \in {[pc |-> "case", detail |-> d, line |-> <<>>,
                  exampleBody |-> JUndefined, responseExample |-> JUndefined] :
                    d \in CaseDetails}

\* the forEach callback of lines 749-856 for one status code; get and
\* delete return before any example is looked for
EmitCase ==
    /\ plan.pc = "case"
    /\ LET early == ToLowerCase(plan.detail.method) \in {"get", "delete"}
       IN  plan' = [plan EXCEPT
              !.pc = "emitted",
              !.exampleBody = IF early THEN JUndefined
                              ELSE RequestExample(CaseTree, plan.detail, TRUE),
              !.responseExample = IF early THEN JUndefined
                                  ELSE ResponseExample(CaseTree, plan.detail.response),
              !.line = GeneralCase(CaseTree, plan.detail)]
    /\ UNCHANGED engineVars

NextCase == EmitCase

SpecCase == InitCase /\ [][NextCase]_vars

-----------------------------------------------------------------------------
(* A generated module that is run: its lines queue their cases with t(),   *)
(* its last line calls runQueuedTests()                                    *)

\* the paths of the documents the modules are generated from
ModulePaths ==
    { <<[route |-> "/users", methods |->
            <<Operation("post", Created, JUndefined)>>]>>,
      <<[route |-> "/items", methods |->
            <<Operation("get", <<<<"2", "0", "0">>>>, JUndefined),
              Operation("post", <<<<"2", "0", "1">>>>, JUndefined)>>]>> }

\* the case a line t("METHOD route", auth, code, body, save) queues; the
\* descriptor is kept as its pieces, the method, the space and the route
CaseOf(line, save) ==
    [url |-> <<line.method, " ", line.route>>, auth |-> line.auth,
     expStatus |-> ParseInt(line.code), save |-> save]

InitModule ==
    /\ EngineInit
    /\ plan \in {[pc |-> "module", test_lines |-> PlanLines(paths), i |-> 1] :
                    paths \in ModulePaths}

\* the module is evaluated line by line: a line t(...) queues its case,
\* with the callback it was generated with or one written in its place
\* (none, one that stores the token, one whose expect throws); any other
\* line but the last queues nothing
LoadLine ==
    /\ pc = "load"
    /\ plan.i <= Len(plan.test_lines)
    /\ LET line == plan.test_lines[plan.i]
       IN  /\ line.kind # "run"
           /\ IF line.kind = "t"
              THEN \E save \in {"none", "saveToken", "throws"} :
                      queuedTests' = Append(queuedTests, CaseOf(line, save))
              ELSE UNCHANGED queuedTests
    /\ plan' = [plan EXCEPT !.i = @ + 1]
    /\ UNCHANGED <<ctx, BASE_URL, pc, idx, res, inflight, running, prepared, wire, calls, log>>

\* the last line of the module: runQueuedTests();
RunModule ==
    /\ plan.i <= Len(plan.test_lines)
    /\ plan.test_lines[plan.i].kind = "run"
    /\ runQueuedTests

\* fetch() resolves with the status the case expects or with another one
ServerReplies ==
    /\ pc = "fetch"
    /\ \E s \in {queuedTests[idx].expStatus, 500}, b \in Bodies :
          res' = [status |-> s, body |-> b]
    /\ inflight' = {}
    /\ pc' = "settled"
    /\ log' = Append(log, Event("response", idx, res'))
    /\ UNCHANGED <<queuedTests, ctx, BASE_URL, idx, running, prepared, wire, calls, plan>>

NextModule ==
    \/ LoadLine
    \/ RunModule
    \/ ExitZero
    \/ Iterate
    \/ ServerReplies
    \/ FetchFails
    \/ Compare
    \/ SaveReturns
    \/ SaveThrows

SpecModule == InitModule /\ [][NextModule]_vars

-----------------------------------------------------------------------------
(* The minimal test runner: test(desc, fn), runSingle and runTests         *)

MaxTests == 3

\* the descriptions tests are registered under
Descs == {"a", "b"}

\* what await fn() ends with: fn returns, throws a SkipTest, or throws
\* anything else
Settlements == {"returns", "SkipTest", "Error"}

\* tests = [], test_results = { passed: 0, failed: 0, skipped: 0 }; ran
\* holds the tests executed so far with their results, printed the totals
\* each printSummary() wrote
InitTests ==
    /\ EngineIdle
    /\ plan = [pc |-> "load", tests |-> <<>>, i |-> 0,
               test_results |-> [passed |-> 0, failed |-> 0, skipped |-> 0],
               ran |-> <<>>, printed |-> <<>>]

\* tests.push({ desc, fn })
test(desc) ==
    /\ plan.pc = "load"
    /\ Len(plan.tests) < MaxTests
    /\ plan' = [plan EXCEPT !.tests = Append(@, desc)]
    /\ UNCHANGED engineVars

\* runTests() is called: the for..of iterator is created
runTests ==
    /\ plan.pc = "load"
    /\ plan' = [plan EXCEPT !.pc = "loop", !.i = 1]
    /\ UNCHANGED engineVars

\* a loop that goes on after a failed test
BreaksNever(result) == FALSE

\* if (result === 'fail') break;
Breaks(result) == result = "fail"

\* runSingle(t) up to its await fn()
runSingle ==
    /\ plan.pc = "loop"
    /\ plan.i <= Len(plan.tests)
    /\ plan' = [plan EXCEPT !.pc = "await"]
    /\ UNCHANGED engineVars

\* await fn() settles: the counter of the result is incremented, runSingle
\* returns the result and runTests breaks or takes the next test
Settles ==
    /\ plan.pc = "await"
    /\ \E s \in Settlements :
          LET result == CASE s = "returns" -> "pass"
                          [] s = "SkipTest" -> "skip"
                          [] OTHER -> "fail"
          IN  plan' = [plan EXCEPT
                 !.test_results.passed = IF result = "pass" THEN @ + 1 ELSE @,
                 !.test_results.skipped = IF result = "skip" THEN @ + 1 ELSE @,
                 !.test_results.failed = IF result = "fail" THEN @ + 1 ELSE @,
                 !.ran = Append(@, [test |-> plan.i, result |-> result]),
                 !.i = IF Breaks(result) THEN @ ELSE @ + 1,
                 !.pc = IF Breaks(result) THEN "summary" ELSE "loop"]
    /\ UNCHANGED engineVars

\* the loop is left, by the break or at the end of tests: printSummary()
printSummary ==
    /\ \/ plan.pc = "summary"
       \/ plan.pc = "loop" /\ plan.i > Len(plan.tests)
    /\ plan' = [plan EXCEPT
          !.pc = "done",
          !.printed = Append(@, [passed |-> plan.test_results.passed,
                                 failed |-> plan.test_results.failed,
                                 skipped |-> plan.test_results.skipped,
                                 total |-> plan.test_results.passed
                                             + plan.test_results.failed
                                             + plan.test_results.skipped])]
    /\ UNCHANGED engineVars

NextTests ==
    \/ \E desc \in Descs : test(desc)
    \/ runTests
    \/ runSingle
    \/ Settles
    \/ printSummary

SpecTests == InitTests /\ [][NextTests]_vars

-----------------------------------------------------------------------------
(* Properties of the execution engine, specification Spec                  *)

HasMethodAndPath(d) ==
    SplitMethodPath(d).method # <<>> /\ SplitMethodPath(d).path # <<>>

ResultEvents == {"response", "transport", "invalid"}

\* the names of the $tokens of a descriptor
TokenNames(s) ==
    { SubSeq(s, i + 1, WordEnd(s, i + 1)) : i \in {j \in 1..Len(s) : TokenAt(s, j)} }

\* the response case i passed with
PassRes(i) == (CHOOSE e \in {log[j] : j \in DOMAIN log} : e.ev = "pass" /\ e.case = i).res

HasEvent(ev, i) == \E j \in DOMAIN log : log[j].ev = ev /\ log[j].case = i

\* C1 as stated: the i-th HTTP request dispatched belongs to the i-th
\* registered case.
C1_IthRequestIsIthCase ==
    \A i \in DOMAIN wire : wire[i].case = i

\* C1, amended: the queue is consumed strictly in enqueue order.  The i-th
\* call of req belongs to the i-th registered case (none twice, none
\* skipped), it is made only after every earlier case passed, the HTTP
\* requests follow the same order and carry their own case's method, and the
\* i-th HTTP request is the i-th case's up to the earlier cases whose
\* descriptor has no method or no path, for which req dispatches nothing.
C1_FifoOrder ==
    /\ \A i \in DOMAIN prepared :
          /\ prepared[i].case = i
          /\ i <= Len(queuedTests)
          /\ \A k \in 1..(i - 1) : HasEvent("pass", k)
    /\ \A i \in DOMAIN wire :
          /\ \A j \in DOMAIN wire : i < j => wire[i].case < wire[j].case
          /\ wire[i].case \in DOMAIN prepared
          /\ wire[i].method = SplitMethodPath(queuedTests[wire[i].case].url).method
          /\ wire[i].case =
                i + Cardinality({k \in 1..wire[i].case : prepared[k].outcome = "invalid"})

C1_Witness ==
    /\ Len(prepared) >= 3
    /\ Len(wire) >= 2
    /\ \E k \in DOMAIN prepared : prepared[k].outcome = "invalid"

\* the fail-fast half of C2: a mismatch fails the case, the run ends with
\* exit code 1 and nothing happens after it
FailFast ==
    /\ \A j \in DOMAIN log :
          log[j].ev = "fail" => j = Len(log) /\ pc = "exit1" /\ idx = log[j].case
    /\ \A j \in DOMAIN log :
          (/\ log[j].ev \in ResultEvents
           /\ log[j].res.status # queuedTests[log[j].case].expStatus
           /\ j < Len(log))
          => log[j + 1].ev = "fail" /\ log[j + 1].case = log[j].case
    /\ pc = "exit1" => log[Len(log)].ev = "fail" /\ inflight = {} /\ running = {}

\* C2 as stated: fail-fast, and a passed case always advances to the next
\* queued case (the run never stops at a case that passed).
C2_PassedAlwaysAdvances ==
    /\ FailFast
    /\ \A j \in DOMAIN log :
          log[j].ev = "pass" => ~(pc = "rejected" /\ idx = log[j].case)

\* C2, amended: fail-fast, and a passed case advances to the next queued
\* case unless its callback throws: after a pass without callback, or after
\* the callback returned, the next thing the run does concerns the next case
\* (or the run exits 0 when there is none); a throwing callback stops the run.
C2_FailFastAndAdvance ==
    /\ FailFast
    /\ \A j \in DOMAIN log :
          (\/ log[j].ev = "pass" /\ queuedTests[log[j].case].save = "none"
           \/ log[j].ev = "leave")
          => IF j < Len(log)
             THEN /\ log[j + 1].case = log[j].case + 1
                  /\ log[j + 1].ev \in {"dispatch", "invalid", "throw"}
             ELSE /\ idx = log[j].case + 1
                  /\ pc \in {"loop", "exit0"}
                  /\ pc = "exit0" => idx = Len(queuedTests) + 1
    /\ \A j \in DOMAIN log :
          log[j].ev = "threw" => j = Len(log) /\ pc = "rejected"

C2_Witness ==
    /\ pc = "exit1"
    /\ idx >= 2
    /\ idx < Len(queuedTests)
    /\ HasEvent("leave", 1)

\* C3: the callback of a case is run exactly when the actual status equals
\* the expected one; it receives the response and the shared context; and it
\* has completed before the next case is prepared, so what it wrote is what
\* the placeholder substitution and the Authorization decision of the next
\* case read.
C3_CallbackBeforeNextCase ==
    /\ \A j \in DOMAIN log :
          (log[j].ev \in ResultEvents /\ j < Len(log))
          => LET c == queuedTests[log[j].case]
             IN  (log[j].res.status = c.expStatus /\ c.save # "none")
                 <=> (/\ j + 2 <= Len(log)
                      /\ log[j + 2].ev = "enter"
                      /\ log[j + 2].case = log[j].case)
    /\ \A j \in DOMAIN log :
          log[j].ev = "enter"
          => /\ j > 2
             /\ log[j - 2].ev \in ResultEvents
             /\ log[j - 2].case = log[j].case
             /\ log[j - 2].res.status = queuedTests[log[j].case].expStatus
    /\ Len(calls) = Cardinality({j \in DOMAIN log : log[j].ev = "enter"})
    /\ \A k \in DOMAIN calls :
          /\ calls[k].res = PassRes(calls[k].case)
          /\ calls[k].ctx = prepared[calls[k].case].ctx
    /\ \A i \in DOMAIN prepared :
          i > 1 =>
          LET prev == queuedTests[i - 1]
              me   == queuedTests[i]
              b    == PassRes(i - 1).body
          IN  /\ prev.save = "saveToken" =>
                   /\ Lookup(prepared[i].ctx, TokenKey) = b
                   /\ prepared[i].headers =
                         IF me.auth /\ b # <<>>
                         THEN {<<"Authorization", Bearer(b)>>} ELSE {}
              /\ prev.save = "saveId" =>
                   /\ Lookup(prepared[i].ctx, IdKey) = b
                   /\ me.url = UrlRead =>
                         prepared[i].descriptor = <<"G", " ", "/", "u", "/">> \o b

C3_Witness ==
    /\ Len(prepared) = 3
    /\ queuedTests[1].save = "saveToken"
    /\ queuedTests[2].save = "saveId"
    /\ queuedTests[3].url = UrlRead
    /\ prepared[3].headers # {}
    /\ prepared[3].descriptor = <<"G", " ", "/", "u", "/", "4", "2">>

HasAuthorization(h) == \E x \in h : x[1] = "Authorization"

\* C4 as stated: the request carries Authorization: Bearer <token> if and
\* only if the case has auth = true and the context has a token.
C4_HeaderIffAuthAndTokenSet ==
    \A i \in DOMAIN wire :
        LET c == queuedTests[wire[i].case]
            k == prepared[wire[i].case].ctx
        IN  HasAuthorization(wire[i].headers) <=> (c.auth /\ TokenKey \in DOMAIN k)

\* C4, amended: the request carries Authorization: Bearer <token> if and
\* only if the case has auth = true and the token in the context is truthy
\* (set to a non-empty value) when the case is executed; a case with
\* auth = true and no such token is prepared and dispatched like any other,
\* without the header.
C4_HeaderIffAuthAndTokenTruthy ==
    /\ \A i \in DOMAIN wire :
          LET c   == queuedTests[wire[i].case]
              tok == Lookup(prepared[wire[i].case].ctx, TokenKey)
          IN  /\ HasAuthorization(wire[i].headers)
                    <=> (c.auth /\ tok # Undefined /\ tok # <<>>)
              /\ HasAuthorization(wire[i].headers)
                    => wire[i].headers = {<<"Authorization", Bearer(tok)>>}
              /\ ~HasAuthorization(wire[i].headers) => wire[i].headers = {}
    /\ \A i \in DOMAIN prepared :
          LET tok == Lookup(prepared[i].ctx, TokenKey)
          IN  (/\ queuedTests[i].auth
               /\ (tok = Undefined \/ tok = <<>>)
               /\ HasMethodAndPath(prepared[i].descriptor)
               /\ BASE_URL # Undefined)
              => \E w \in DOMAIN wire : wire[w].case = i /\ wire[w].headers = {}

C4_Witness ==
    \E i, j \in DOMAIN wire :
        /\ HasAuthorization(wire[i].headers)
        /\ queuedTests[wire[j].case].auth
        /\ wire[j].headers = {}
        /\ HasEvent("pass", wire[j].case)

\* C5: a $name token whose name has no entry in the context remains
\* literally in the descriptor that is requested.
C5_UnresolvedTokenStaysLiteral ==
    \A i \in DOMAIN prepared :
        LET u == queuedTests[i].url
        IN  TokenNames(u) \cap DOMAIN prepared[i].ctx = {}
            => prepared[i].descriptor = u

\* C6: a $name token whose name has a value in the context is replaced by
\* that value at every occurrence, and the method and the other text of the
\* descriptor (a "$" no name follows included) are unchanged.
C6_ResolvedTokenReplaced ==
    \A i \in DOMAIN prepared :
        LET u == queuedTests[i].url
            k == prepared[i].ctx
            d == prepared[i].descriptor
        IN  IdKey \in DOMAIN k =>
            /\ u = UrlRead => d = <<"G", " ", "/", "u", "/">> \o k[IdKey]
            /\ u = UrlTwice =>
                  d = <<"G", " ", "/">> \o k[IdKey] \o <<"/">> \o k[IdKey]
                        \o <<"/", "$", "4">>
            /\ u = UrlMixed =>
                  /\ Len(d) >= 4 + Len(k[IdKey])
                  /\ SubSeq(d, 1, 3) = <<"G", " ", "/">>
                  /\ SubSeq(d, Len(d) - Len(k[IdKey]), Len(d)) = <<"/">> \o k[IdKey]
            /\ u \in {UrlRead, UrlTwice} /\ (\E w \in DOMAIN wire : wire[w].case = i)
                  => \E w \in DOMAIN wire :
                        /\ wire[w].case = i
                        /\ wire[w].method = <<"G">>
                        /\ <<"G", " ">> \o wire[w].path = d

C6_Witness ==
    \E i \in DOMAIN prepared, w \in DOMAIN wire :
        /\ queuedTests[i].url = UrlTwice
        /\ wire[w].case = i
        /\ wire[w].path = <<"/", "4", "2", "/", "4", "2", "/", "$", "4">>

\* C7: a transport failure is not thrown: req returns status 0 with the
\* error message as body, and the run compares that 0 with the expected
\* status like any other: a mismatch fails the case, and expectedStatus = 0
\* passes it and runs its callback.
C7_TransportFailureIsStatusZero ==
    \A j \in DOMAIN log :
        log[j].ev = "transport"
        => LET c == queuedTests[log[j].case]
           IN  /\ log[j].res = [status |-> 0, body |-> FetchError]
               /\ j = Len(log) => pc = "settled" /\ res = log[j].res
               /\ j < Len(log) =>
                     IF c.expStatus = 0
                     THEN /\ log[j + 1].ev = "pass"
                          /\ c.save # "none" =>
                                /\ j + 2 <= Len(log)
                                /\ log[j + 2].ev = "enter"
                                /\ \E k \in DOMAIN calls :
                                      /\ calls[k].case = log[j].case
                                      /\ calls[k].res = log[j].res
                     ELSE /\ log[j + 1].ev = "fail"
                          /\ pc = "exit1"

C7_Witness ==
    /\ \E j \in DOMAIN log :
          /\ log[j].ev = "transport"
          /\ j + 2 <= Len(log)
          /\ log[j + 2].ev = "enter"
    /\ TokenKey \in DOMAIN ctx
    /\ ctx[TokenKey] = FetchError

\* C8 as stated: with BASE_URL undefined every call of req ends in the
\* explicit error, whatever the descriptor, and nothing is dispatched.
C8_EveryCallThrowsWithoutBaseUrl ==
    BASE_URL = Undefined =>
        /\ wire = <<>>
        /\ \A i \in DOMAIN prepared : prepared[i].outcome = "throw"

\* C8, amended: with BASE_URL undefined nothing is dispatched, and every
\* call of req whose descriptor has a method and a path ends in the explicit
\* error (the run is rejected); a descriptor without method or path returns
\* status 0 before the base URL is looked at.
C8_ValidCallThrowsWithoutBaseUrl ==
    BASE_URL = Undefined =>
        /\ wire = <<>>
        /\ inflight = {}
        /\ \A i \in DOMAIN prepared :
              IF HasMethodAndPath(prepared[i].descriptor)
              THEN /\ prepared[i].outcome = "throw"
                   /\ i = Len(prepared)
                   /\ pc = "rejected"
                   /\ ~HasEvent("pass", i)
              ELSE /\ prepared[i].outcome = "invalid"
                   /\ \E j \in DOMAIN log :
                         /\ log[j].ev = "invalid"
                         /\ log[j].case = i
                         /\ log[j].res.status = 0

C8_Witness ==
    /\ BASE_URL = Undefined
    /\ pc = "rejected"
    /\ Len(prepared) = 2
    /\ prepared[1].outcome = "invalid"
    /\ prepared[2].outcome = "throw"

\* C9: at most one case is running at any time: the request of a case is
\* dispatched only after the response of every earlier request was received
\* and every callback entered before has returned.
C9_OneCaseAtATime ==
    /\ Cardinality(inflight) + Cardinality(running) <= 1
    /\ \A w \in inflight : wire[w].case = idx /\ pc = "fetch"
    /\ \A r \in running : r = idx /\ pc = "save"
    /\ \A j \in DOMAIN log :
          log[j].ev = "dispatch" =>
          \A k \in 1..(j - 1) :
              /\ log[k].ev = "dispatch" =>
                    \E m \in (k + 1)..(j - 1) :
                        /\ log[m].ev \in {"response", "transport"}
                        /\ log[m].case = log[k].case
              /\ log[k].ev = "enter" =>
                    \E m \in (k + 1)..(j - 1) :
                        /\ log[m].ev = "leave"
                        /\ log[m].case = log[k].case

C9_Witness ==
    \E j, k \in DOMAIN log :
        /\ k < j
        /\ log[k].ev = "leave"
        /\ log[j].ev = "dispatch"
        /\ inflight # {}

-----------------------------------------------------------------------------
(* Properties of the generator, specification SpecGen                      *)

InErrorRange(code) == ParseInt(code) >= 400 /\ ParseInt(code) <= 599

\* the registrations that come from the document (the synthetic probe and
\* the markers are not part of any (route, method) group)
PlannedLines ==
    {k \in DOMAIN plan.test_lines :
        plan.test_lines[k].kind = "t" /\ plan.test_lines[k].pass # "probe"}

\* C10: within every (route, method) group, every status code in 400-599 is
\* emitted before every status code outside that range, and inside each of
\* the two groups the codes are in ascending numeric order.
C10_StatusCodeOrder ==
    \A i, j \in PlannedLines :
        LET a == plan.test_lines[i]
            b == plan.test_lines[j]
        IN  (i < j /\ a.route = b.route /\ a.method = b.method)
            => \/ InErrorRange(a.code) /\ ~InErrorRange(b.code)
               \/ /\ InErrorRange(a.code) <=> InErrorRange(b.code)
                  /\ ParseInt(a.code) < ParseInt(b.code)

C10_Witness ==
    /\ plan # PlanIdle
    /\ plan.pc = "done"
    /\ \E i, j, k \in PlannedLines :
          /\ i < j /\ j < k
          /\ plan.test_lines[i].pass = "general"
          /\ plan.test_lines[i].route = plan.test_lines[k].route
          /\ plan.test_lines[j].route = plan.test_lines[k].route
          /\ plan.test_lines[i].method = plan.test_lines[k].method
          /\ plan.test_lines[j].method = plan.test_lines[k].method
          /\ plan.test_lines[i].code = <<"4", "0", "0">>
          /\ plan.test_lines[j].code = <<"5", "9", "9">>
          /\ plan.test_lines[k].code = <<"3", "9", "9">>

IdentityRoutes == {"/users", "/trainees"}

SpecialRoutes == IdentityRoutes \cup {"/sessions"}

PlanStarted == plan.pc # "start"

IdentityPosts ==
    {k \in PlannedLines :
        plan.test_lines[k].method = "POST" /\ plan.test_lines[k].route \in IdentityRoutes}

SessionPosts ==
    {k \in PlannedLines :
        plan.test_lines[k].method = "POST" /\ plan.test_lines[k].route = "/sessions"}

OtherLines == PlannedLines \ (IdentityPosts \cup SessionPosts)

\* the status codes the document declares for an operation, 500 left out
EmittedCodes(op) ==
    {c \in {op.responses[k] : k \in DOMAIN op.responses} : c # Code500}

\* C12: every POST registration of /users and /trainees precedes every
\* document-derived POST /sessions registration, which precedes every
\* registration of the general pass; no (method, route, status) is
\* registered twice, so the POST of a special route is not emitted again;
\* and once the plan is complete the other methods of the special routes
\* are registered, after all the special POSTs.
C12_SpecialPostsFirst ==
    PlanStarted =>
        LET lines    == plan.test_lines
            identity == IdentityPosts
            sessions == SessionPosts
            special  == identity \cup sessions
            others   == PlannedLines \ special
        IN  /\ \A i \in identity : \A j \in sessions : i < j
            /\ \A i \in special : \A j \in others : i < j
            /\ \A i \in special : \A j \in special \cup others :
                  (/\ lines[i].method = lines[j].method
                   /\ lines[i].route = lines[j].route
                   /\ lines[i].code = lines[j].code) => i = j
            /\ \A i \in special : lines[i].pass # "general"
            /\ plan.pc = "done" =>
                  \A d \in DOMAIN plan.doc :
                      \A m \in DOMAIN plan.doc[d].methods :
                          LET item == plan.doc[d]
                              op   == item.methods[m]
                          IN  (item.route \in SpecialRoutes /\ op.method # "post") =>
                                  \A c \in EmittedCodes(op) :
                                      \E k \in others :
                                          /\ lines[k].method = ToUpperCase(op.method)
                                          /\ lines[k].route = item.route
                                          /\ lines[k].code = c
                                          /\ lines[k].pass = "general"

\* /sessions is declared before /users, both with get and post: the POSTs
\* of /users come first, then the POSTs of /sessions, then the GETs
C12_Witness ==
    /\ plan.pc = "done"
    /\ Len(plan.doc) = 2
    /\ plan.doc[1].route = "/sessions"
    /\ plan.doc[2].route = "/users"
    /\ IdentityPosts # {}
    /\ SessionPosts # {}
    /\ \E k \in OtherLines :
          plan.test_lines[k].method = "GET" /\ plan.test_lines[k].route = "/users"
    /\ \E k \in OtherLines :
          plan.test_lines[k].method = "GET" /\ plan.test_lines[k].route = "/sessions"

InClientErrorRange(code) == ParseInt(code) >= 400 /\ ParseInt(code) <= 499

\* C13: once the plan is started, the first registration is the synthetic
\* probe POST /sessions expecting a client-error status, for every
\* document, and every registration that comes from a route is after it.
C13_ProbeFirst ==
    PlanStarted =>
        /\ Len(plan.test_lines) >= 1
        /\ plan.test_lines[1].kind = "t"
        /\ plan.test_lines[1].pass = "probe"
        /\ plan.test_lines[1].method = "POST"
        /\ plan.test_lines[1].route = "/sessions"
        /\ InClientErrorRange(plan.test_lines[1].code)
        /\ \A k \in PlannedLines : k > 1

\* a document with neither a registration nor a session route, whose
\* registrations follow the probe
C13_Witness ==
    /\ plan.pc = "done"
    /\ plan.doc # <<>>
    /\ \A d \in DOMAIN plan.doc : plan.doc[d].route \notin SpecialRoutes
    /\ PlannedLines # {}
    /\ plan.test_lines[1].pass = "probe"

Warnings(route) ==
    {k \in DOMAIN plan.test_lines :
        plan.test_lines[k].kind = "warning" /\ plan.test_lines[k].route = route}

PriorityPassDone == plan.pc \notin {"start", "priority"}

\* C14: after the first pass, each of /users and /trainees that has a POST
\* operation carries the warning exactly once when "409" is not among the
\* response codes of that POST and not at all when it is; a route without
\* POST carries none; and a plan that carries a warning is completed like
\* any other: its last line is the call of runQueuedTests.
C14_WarningIff409Missing ==
    /\ PriorityPassDone =>
          \A route \in IdentityRoutes :
              LET found == FindRoute(plan.doc, route)
              IN  IF found # <<>> /\ HasPostKey(found[1])
                  THEN LET codes == PostOf(found[1]).responses
                       IN  Cardinality(Warnings(route)) =
                             IF \E k \in DOMAIN codes : codes[k] = Code409 THEN 0 ELSE 1
                  ELSE Warnings(route) = {}
    /\ plan.pc = "done" => plan.test_lines[Len(plan.test_lines)] = Marker("run", "")

\* /users declares 409 and gets no warning, /trainees does not and gets one
C14_Witness ==
    /\ plan.pc = "done"
    /\ \E d \in DOMAIN plan.doc :
          /\ plan.doc[d].route = "/users"
          /\ \E k \in DOMAIN PostOf(plan.doc[d]).responses :
                PostOf(plan.doc[d]).responses[k] = Code409
    /\ \E d \in DOMAIN plan.doc : plan.doc[d].route = "/trainees"
    /\ Warnings("/users") = {}
    /\ Cardinality(Warnings("/trainees")) = 1

-----------------------------------------------------------------------------
(* Properties of the third definition of generateTestFile, SpecGen3        *)

\* C11: no registration of the generated module expects status 500,
\* whichever route and method it belongs to.
C11_No500Registered ==
    \A k \in DOMAIN plan.test_lines :
        plan.test_lines[k].kind = "t" => plan.test_lines[k].code # Code500

-----------------------------------------------------------------------------
(* Properties of resolveRef, specification SpecRef                         *)

\* the subtree reached by indexing with the segments one after the other,
\* through the members the document itself holds
RECURSIVE OwnSubtree(_, _)
OwnSubtree(cur, segments) ==
    IF segments = <<>> THEN cur
    ELSE IF cur.type = "object" /\ HasOwn(cur, segments[1])
         THEN OwnSubtree(GetOwnMember(cur, segments[1]), Tail(segments))
         ELSE JUndefined

\* every segment names a member of the value reached so far
RECURSIVE ValidIn(_, _)
ValidIn(cur, segments) ==
    \/ segments = <<>>
    \/ /\ cur.type = "object"
       /\ HasOwn(cur, segments[1])
       /\ ValidIn(GetOwnMember(cur, segments[1]), Tail(segments))

\* C15: resolveRef returns the subtree at the segments when the ref starts
\* with '#/' and is valid in the document, and undefined when a segment is
\* missing or the prefix is not '#/'.
C15_SubtreeOrUndefined ==
    plan.pc = "returned" =>
        plan.result =
            IF plan.ref.prefixed /\ ValidIn(plan.obj, plan.ref.segments)
            THEN OwnSubtree(plan.obj, plan.ref.segments)
            ELSE JUndefined

-----------------------------------------------------------------------------
(* Properties of a whole call of generateTestFile, specification SpecRun   *)

\* the request-body schema of some operation is a $ref whose target the
\* document does not hold
HasMissingRequestRef(d) ==
    \E i \in DOMAIN d.paths : \E k \in DOMAIN d.paths[i].methods :
        LET body == d.paths[i].methods[k].requestBody
            sch  == Prop(Prop(Prop(body, "content", TRUE),
                              "application/json", TRUE), "schema", TRUE)
            ref  == Prop(sch, "$ref", TRUE)
        IN  IsTruthy(ref) /\ resolveRef(d.tree, ref.value) = JUndefined

\* C16: a document with a request-body $ref to a missing target never
\* makes generation throw.
C16_UnresolvedRefNotFatal ==
    HasMissingRequestRef(plan.swaggerDoc) => plan.pc # "threw"

BaseUrlDerived == plan.pc \in {"generate", "threw", "write", "done"}

FirstServerIsHttp ==
    plan.swaggerDoc.servers # <<>> /\ StartsWithHttp(plan.swaggerDoc.servers[1])

\* C17: once the base URL is derived: a first server url that starts with
\* http is taken as it is but for one trailing slash, whatever the link is,
\* and never fails on the link; a first server url that starts with "/"
\* gives protocol and host of the link; no servers and the link
\* https://h (with or without a path) give https://h.
C17_BranchOrder ==
    /\ BaseUrlDerived =>
          LET servers == plan.swaggerDoc.servers
              baked   == plan.bakedBaseUrl
          IN  /\ FirstServerIsHttp =>
                    \/ baked \o <<"/">> = servers[1]
                    \/ baked = servers[1] /\ servers[1][Len(servers[1])] # "/"
              /\ (servers # <<>> /\ servers[1][1] = "/") =>
                    /\ plan.swaggerUiLink \in {Link.docs, Link.host}
                    /\ baked = <<"h", "t", "t", "p", "s", ":", "/", "/", "h">>
              /\ (servers = <<>> /\ plan.swaggerUiLink \in {Link.docs, Link.host}) =>
                    baked = <<"h", "t", "t", "p", "s", ":", "/", "/", "h">>
    /\ FirstServerIsHttp =>
          plan.fault # "Could not parse swaggerUiLink to extract base URL"

\* the module is written for a first server http://a/ although the link is
\* no URL: the base URL is http://a
C17_Witness ==
    /\ plan.pc = "done"
    /\ plan.swaggerDoc.servers = <<Server.http>>
    /\ plan.swaggerUiLink = Link.bad
    /\ plan.bakedBaseUrl = <<"h", "t", "t", "p", ":", "/", "/", "a">>
    /\ \E f \in plan.files : f.kind = "module" /\ f.baseUrl = plan.bakedBaseUrl

\* C18: a call that is not interactive, with a document without servers
\* and without a link, writes no test module.
C18_MissingBaseUrlIsFatal ==
    (/\ ~plan.interactive
     /\ plan.swaggerDoc.servers = <<>>
     /\ ~Truthy(plan.swaggerUiLink)) =>
        \A f \in plan.files : f.kind # "module"

\* C19: a call that reported a fatal error has returned and has written
\* neither file; and no file exists while the student name, the assignment
\* id or both sources are missing.
C19_FatalErrorWritesNothing ==
    /\ plan.fault # "none" => plan.pc = "returned" /\ plan.files = {}
    /\ (/\ plan.pc # "options"
        /\ \/ ~Truthy(plan.studentName)
           \/ ~Truthy(plan.assignmentId)
           \/ ~Truthy(plan.swaggerUiLink) /\ ~Truthy(plan.specFilePath)) =>
          plan.files = {}

\* the document was read from the file, and the link is no URL
C19_Witness ==
    /\ plan.pc = "returned"
    /\ plan.fault = "Could not parse swaggerUiLink to extract base URL"
    /\ Truthy(plan.specFilePath)
    /\ plan.swaggerDoc.servers = <<Server.root>>
    /\ plan.swaggerUiLink = Link.bad
    /\ plan.files = {}

-----------------------------------------------------------------------------
(* Properties of the third pass for one operation, specification SpecCase  *)

\* the case went through the part of the pass that looks for examples
CaseEmitted ==
    /\ plan.pc = "emitted"
    /\ ToLowerCase(plan.detail.method) \notin {"get", "delete"}

\* JSON.stringify of the request example, or of {} when there is none
ExpectedBody(exampleBody) ==
    JsonStringify(IF exampleBody = JUndefined THEN JObject(<<>>) ELSE exampleBody)

\* C21: the body of a registration whose method is neither GET nor DELETE is
\* the request example found for the operation, or the empty object when
\* none is found, whichever callback the registration gets.
C21_BodyIsRequestExample ==
    CaseEmitted => plan.line.body = ExpectedBody(plan.exampleBody)

\* the response example is an object with at least one field
ExampleHasField(responseExample) ==
    /\ IsTruthy(responseExample)
    /\ responseExample.type = "object"
    /\ responseExample.pairs # <<>>

\* C22: when the response has neither schema fields with examples nor a
\* response example object with a field, the callback asserts the field
\* message exactly when the status code is in 400..599, whether or not a
\* request example was found.
C22_MessageCallbackOnErrorCodes ==
    ( /\ CaseEmitted
      /\ FieldsWithExamples(ContentJson(CaseTree, plan.detail.response)) = <<>>
      /\ ~ExampleHasField(plan.responseExample) )
    => plan.line.callback =
         IF InErrorRange(plan.detail.code) THEN <<"message">> ELSE <<>>

\* C23: when the response schema has no fields with examples and the
\* response example object has a field, the callback asserts the first
\* field of that object and no other field.
C23_FirstFieldOnly ==
    ( /\ CaseEmitted
      /\ FieldsWithExamples(ContentJson(CaseTree, plan.detail.response)) = <<>>
      /\ ExampleHasField(plan.responseExample) )
    => plan.line.callback = <<plan.responseExample.pairs[1][1]>>

\* the value of the first entry of media.examples when the media node
\* carries both examples and example, else undefined
FirstOfBoth(media) ==
    LET examples == Prop(media, "examples", TRUE)
    IN  IF /\ IsTruthy(examples)
           /\ examples.type = "object"
           /\ examples.pairs # <<>>
           /\ Prop(media, "example", TRUE) # JUndefined
        THEN Prop(examples.pairs[1][2], "value", TRUE)
        ELSE JUndefined

\* C24: a media node that carries both examples and example yields the
\* value of its first examples entry, for the request body and for the
\* response alike.
C24_ExamplesEntryFirst ==
    CaseEmitted =>
      LET requestMedia ==
              Prop(Prop(plan.detail.requestBody, "content", TRUE), "application/json", TRUE)
          responseMedia == ContentJson(CaseTree, plan.detail.response)
      IN  /\ FirstOfBoth(requestMedia) # JUndefined
                => plan.exampleBody = FirstOfBoth(requestMedia)
          /\ FirstOfBoth(responseMedia) # JUndefined
                => plan.responseExample = FirstOfBoth(responseMedia)

-----------------------------------------------------------------------------
(* Properties of the acquisition from a Swagger UI link, specification     *)
(* SpecRun                                                                  *)

\* the nodes of the walked script that are named swaggerDoc
MatchingNodes == SelectSeq(plan.script, IsSwaggerDocNode)

\* C25: the document recovered from a script is the one of the first node
\* named swaggerDoc that the walk finds; a script without such a node ends
\* the call with the error that no swaggerDoc was found.
C25_FirstMatchingNodeWins ==
    plan.walked =>
      IF MatchingNodes = <<>>
      THEN /\ plan.pc = "returned"
           /\ plan.fault = "Could not find swaggerDoc in swagger-ui-init.js"
      ELSE /\ plan.fault # "Could not find swaggerDoc in swagger-ui-init.js"
           /\ plan.swaggerDoc = MatchingNodes[1].value

\* the registrations of the module for one method key, route and status
\* code, the probe left out
RegistrationsOf(route, method, code) ==
    {n \in DOMAIN plan.test_lines :
        /\ plan.test_lines[n].kind = "t"
        /\ plan.test_lines[n].pass # "probe"
        /\ plan.test_lines[n].route = route
        /\ plan.test_lines[n].method = ToUpperCase(method)
        /\ plan.test_lines[n].code = code}

\* C26: every status code other than 500 of every method key of every
\* route has exactly one registration in the generated module, the probe
\* not counted, whatever the letter case of the method key.
C26_OneRegistrationPerTriple ==
    plan.pc \in {"write", "done"} =>
      \A i \in DOMAIN plan.swaggerDoc.paths :
        \A k \in DOMAIN plan.swaggerDoc.paths[i].methods :
          LET item  == plan.swaggerDoc.paths[i]
              op    == item.methods[k]
              codes == ObjectKeys(op.responses)
          IN  \A c \in DOMAIN codes :
                codes[c] # Code500 =>
                  Cardinality(RegistrationsOf(item.route, op.method, codes[c])) = 1

-----------------------------------------------------------------------------
(* Properties of the execution engine on callbacks that throw, and on       *)
(* termination, specifications Spec and SpecFair                            *)

\* C27: when the callback of a passed case throws, the run stops there: no
\* later case is dispatched and the run does not reach process.exit(0).
C27_ThrowingCallbackStopsRun ==
    \A n \in DOMAIN log :
        log[n].ev = "threw" =>
            /\ n = Len(log)
            /\ pc = "rejected"
            /\ \A w \in DOMAIN wire : wire[w].case <= log[n].case
            /\ \A k \in DOMAIN prepared : prepared[k].case <= log[n].case

\* a callback threw while cases were still queued behind it
C27_Witness ==
    \E n \in DOMAIN log :
        /\ log[n].ev = "threw"
        /\ log[n].case < Len(queuedTests)
        /\ HasEvent("pass", log[n].case)

\* the run is over: process.exit was called or the promise is rejected
Terminated == pc \in {"exit0", "exit1", "rejected"}

\* every queued case was compared and its status matched
AllMatched == \A i \in DOMAIN queuedTests : HasEvent("pass", i)

\* while the request of a case is pending nothing else happens: the next
\* step is the return of that request
BlockedOnRequest ==
    pc = "fetch" =>
        /\ pc' = "settled"
        /\ idx' = idx
        /\ wire' = wire
        /\ log' = Append(log, log'[Len(log')])
        /\ log'[Len(log')].ev \in {"response", "transport"}
        /\ log'[Len(log')].case = idx

\* C28: once runQueuedTests is called it terminates, given that every
\* request returns and every callback completes; it ends with exit code 0
\* exactly when every queued case matched its expected status and with
\* exit code 1 at the first mismatch; a run that ends otherwise ends on a
\* throw; while a request has not returned no later case is dispatched.
C28_TerminatesWithExitCode ==
    /\ (pc = "loop") ~> Terminated
    /\ [](pc = "exit0" => AllMatched)
    /\ [](pc = "exit1" =>
            /\ HasEvent("fail", idx)
            /\ \A i \in 1..(idx - 1) : HasEvent("pass", i)
            /\ \A i \in DOMAIN queuedTests : i > idx => ~\E k \in DOMAIN prepared : prepared[k].case = i)
    /\ [](pc = "rejected" => log[Len(log)].ev \in {"throw", "threw"})
    /\ []((Terminated /\ AllMatched /\ pc # "rejected") => pc = "exit0")
    /\ [][BlockedOnRequest]_vars

\* runs of three cases that ended with exit code 0, and with exit code 1
\* on the second case
C28_Witness ==
    \/ pc = "exit0" /\ Len(queuedTests) = MaxQueue
    \/ pc = "exit1" /\ idx = 2 /\ Len(queuedTests) = MaxQueue

-----------------------------------------------------------------------------
(* Properties of a generated module that is run, specification SpecModule  *)

\* C29: every registration of a generated module has its auth flag false,
\* and no request of a run of the module carries an Authorization header,
\* also after a callback stored a token in the shared context.
C29_NoAuthorizationHeader ==
    /\ \A n \in DOMAIN plan.test_lines :
          plan.test_lines[n].kind = "t" => plan.test_lines[n].auth = FALSE
    /\ \A i \in DOMAIN queuedTests : queuedTests[i].auth = FALSE
    /\ \A w \in DOMAIN wire : ~HasAuthorization(wire[w].headers)
    /\ \A k \in DOMAIN prepared : ~HasAuthorization(prepared[k].headers)

\* a case was dispatched while the shared context held a token
C29_Witness ==
    \E k \in DOMAIN prepared :
        /\ Truthy(Lookup(prepared[k].ctx, TokenKey))
        /\ prepared[k].outcome = "fetch"
        /\ prepared[k].case > 1

-----------------------------------------------------------------------------
(* Properties of the minimal test runner, specification SpecTests          *)

=============================================================================
